---- MODULE Spec2Model ----
(***************************************************************************)
(* A model of the CRM request handlers: the assignment authorizer and the  *)
(* lead visibility predicates (crm/fcrm/permissions), the notification     *)
(* aggregator (crm/api/notifications.py) and the mobile task / OAuth       *)
(* handlers (crm/api/mobile_api.py).  The document store, the session and  *)
(* the realtime transport belong to the host framework: the store is the   *)
(* state below, and what the framework answers (a permission check, the    *)
(* request headers) is an input of the action that asks for it.            *)
(*                                                                         *)
(* Every handler is one action, taken when no call is in progress.  It    *)
(* leaves its outcome in `ret`: the operation, its arguments, whether it   *)
(* returned or raised, the value it returned and the calls it made to the  *)
(* framework.  Return delivers the response and makes room for the next    *)
(* call (a request runs to completion, one at a time).                     *)
(***************************************************************************)
EXTENDS Integers, Sequences, FiniteSets, TLC

VARIABLES
    roles,      \* User -> set of role names              (Has Role)
    teams,      \* Team name -> [team_leader, members]    (Team, Member)
    todos,      \* set of ToDo rows                       (ToDo)
    enabled,    \* the User rows with enabled = 1
    ncols,      \* optional columns of Notification Log that exist
    crm_table,  \* whether the CRM Notification table exists
    nlog,       \* Notification Log rows, in insertion order
    crmn,       \* CRM Notification rows, in insertion order
    site,       \* frappe.local.site: the name of the site serving requests
    site_config,\* what frappe.get_site_config() gives
    oauth,      \* Mobile OAuth Settings and what creating a client needs
    tasks,      \* CRM Task rows, in the store's default order
    edits,      \* the edit_task calls in progress, one per worker
    ret         \* outcome of the last handler call

assignVars == <<roles, teams, todos, enabled>>
notifVars == <<ncols, crm_table, nlog, crmn>>
hostVars == <<site, site_config, oauth>>
taskVars == <<tasks, edits>>
apiVars == <<hostVars, taskVars>>
vars == <<assignVars, notifVars, apiVars, ret>>

(***************************************************************************)
(* Values                                                                  *)
(***************************************************************************)
None == "None"              \* Python's None / SQL NULL
NoUser == ""                \* an empty user name: falsy in Python
Guest == "Guest"
Administrator == "Administrator"
Staff == {"u1", "u2", "u3"}
Users == {Administrator} \cup Staff
Assignees == {"u2", "u3"}   \* the users the model assigns documents to
Roles == {"System Manager", "Sales Manager", "Sales User"}
Leads == {"L1"}             \* CRM Lead documents
TeamOrder == <<"T1", "T2">> \* the Team rows in the store's default order
TeamNames == {TeamOrder[i] : i \in 1..Len(TeamOrder)}

MaxUsers == 2               \* longest users list passed to assign_lead

Falsy(v) == v = None \/ v = NoUser

\* All sequences over S of length at most n.
SeqUpTo(S, n) == UNION {[1..k -> S] : k \in 0..n}

\* The elements of a sequence.
Range(s) == {s[i] : i \in 1..Len(s)}

\* No call is in progress: the last response has been delivered.
Idle == [op |-> "idle"]

\* The larger and the smaller of two integers.
Max(a, b) == IF a >= b THEN a ELSE b
Min(a, b) == IF a <= b THEN a ELSE b

\* s[:n] of Python: the first n elements, or all but the last -n when n < 0.
SliceTo(s, n) ==
    IF n >= 0 THEN SubSeq(s, 1, Min(n, Len(s)))
    ELSE SubSeq(s, 1, Max(Len(s) + n, 0))

\* A stable sort of s by Key, largest first: what sort(key=..., reverse=True)
\* and an ORDER BY ... DESC that breaks ties by row order both give.
SortDescBy(s, Key(_)) ==
    LET n == Len(s)
        Rank(i) == 1 + Cardinality({j \in 1..n :
                        \/ Key(s[j]) > Key(s[i])
                        \/ (Key(s[j]) = Key(s[i]) /\ j < i)})
    IN  [p \in 1..n |-> s[CHOOSE i \in 1..n : Rank(i) = p]]

\* The store with no notification data (the specifications of the other
\* components leave it so).
NotifOff == ncols = {} /\ crm_table = FALSE /\ nlog = <<>> /\ crmn = <<>>

\* The workers that serve requests at the same time, none of them in a call.
Procs == {"p1", "p2"}
NoEdits == [p \in Procs |-> [pc |-> "idle"]]

\* No site configuration and no tasks.
ApiOff ==
    /\ tasks = <<>>
    /\ edits = NoEdits
    /\ site = <<>>
    /\ site_config = [readable |-> FALSE]
    /\ oauth = [site_ok |-> FALSE, doctype |-> FALSE, provider |-> FALSE,
                client_id |-> "", scope |-> "", redirect_uri |-> "",
                clients |-> 0]

(***************************************************************************)
(* Assignment authorizer: crm/fcrm/permissions/assign_to.py                *)
(***************************************************************************)
\* frappe.permissions.has_role(role, user)
has_role(role, user) == user \in DOMAIN roles /\ role \in roles[user]

_is_privileged(user) == user = Administrator \/ has_role("System Manager", user)

_is_sales_manager(user) == has_role("Sales Manager", user)

_is_sales_user(user) == has_role("Sales User", user)

\* frappe.db.get_value("Team", {"team_leader": leader}, "name"): the first
\* Team row, in the store's order, led by `leader`; None when there is none.
TeamLedBy(team_leader) ==
    LET led == SelectSeq(TeamOrder, LAMBDA t : teams[t].team_leader = team_leader)
    IN  IF led = <<>> THEN None ELSE led[1]

_team_members_of(team_leader) ==
    LET team == TeamLedBy(team_leader)
    IN  IF team = None THEN {} ELSE teams[team].members \ {NoUser}

\* The open ToDo row frappe.desk.form.assign_to.add creates for one user.
OpenToDo(name, user) ==
    [reference_type |-> "CRM Lead", reference_name |-> name,
     allocated_to |-> user, status |-> "Open"]

\* Mutant: a manager's illegal users are not looked for at all.
IllegalUsersNone(users, allowed) == <<>>

\* illegal = [u for u in users if u not in allowed]
IllegalUsers(users, allowed) == SelectSeq(users, LAMBDA u : u \notin allowed)

\* Mutant: the read-permission precondition is skipped.
ReadDeniedNever(has_read) == FALSE

\* not frappe.has_permission(doctype, "read", name=name)
ReadDenied(has_read) == ~has_read

\* The branch of the role check assign_lead takes for the actor.
RoleGate(actor) ==
    IF _is_privileged(actor) THEN "privileged"
    ELSE IF _is_sales_manager(actor) THEN "manager"
    ELSE "blocked"

\* The outcome of assign_lead up to the add_assignment loop: whether it
\* raises, and the users it then calls add_assignment for, in order.
AssignLeadOutcome(actor, has_read, users_arg) ==
    LET users == SelectSeq(users_arg, LAMBDA u : ~Falsy(u))
        gate == RoleGate(actor)
        illegal == IF gate = "manager"
                   THEN IllegalUsers(users, _team_members_of(actor))
                   ELSE <<>>
    IN  IF ReadDenied(has_read)
        THEN [ok |-> FALSE, exc |-> "PermissionError", illegal |-> <<>>, added |-> <<>>]
        ELSE IF gate = "blocked" \/ illegal # <<>>
        THEN [ok |-> FALSE, exc |-> "PermissionError", illegal |-> illegal, added |-> <<>>]
        ELSE [ok |-> TRUE, exc |-> None, illegal |-> <<>>, added |-> users]

\* assign_lead(doctype, name, users): `has_read` is the framework's answer to
\* frappe.has_permission(doctype, "read", name) for the session user.
assign_lead(actor, name, users_arg, has_read) ==
    LET out == AssignLeadOutcome(actor, has_read, users_arg)
        new == {OpenToDo(name, u) : u \in Range(out.added)}
    IN  /\ ret = Idle
        /\ todos' = todos \cup new
        /\ ret' = [op |-> "assign_lead", actor |-> actor, name |-> name,
                   users |-> users_arg, has_read |-> has_read,
                   ok |-> out.ok, exc |-> out.exc, illegal |-> out.illegal,
                   added |-> out.added, created |-> new \ todos]
        /\ UNCHANGED <<apiVars, roles, teams, enabled, notifVars>>

\* The framework closes an open assignment (ToDo.status := "Closed").
CloseToDo(td) ==
    /\ ret = Idle
    /\ td \in todos
    /\ td.status = "Open"
    /\ todos' = (todos \ {td}) \cup {[td EXCEPT !.status = "Closed"]}
    /\ UNCHANGED <<apiVars, roles, teams, enabled, notifVars, ret>>

\* The response of the last call is delivered.
Return ==
    /\ ret # Idle
    /\ ret' = Idle
    /\ UNCHANGED <<apiVars, assignVars, notifVars>>

(***************************************************************************)
(* Lead visibility: crm/fcrm/permissions/leads_permissions.py              *)
(***************************************************************************)
\* frappe.get_roles(user)
get_roles(user) == IF user \in DOMAIN roles THEN roles[user] ELSE {}

\* Mutant: an assignment counts whatever its status.
AssignedSelfAnyStatus(name, user) ==
    \E td \in todos :
        /\ td.reference_type = "CRM Lead"
        /\ td.reference_name = name
        /\ td.allocated_to = user

\* The first EXISTS of the list predicate, for the Lead row `name`.
assigned_self(name, user) ==
    \E td \in todos :
        /\ td.reference_type = "CRM Lead"
        /\ td.reference_name = name
        /\ td.allocated_to = user
        /\ td.status = "Open"

\* The second EXISTS: Member m JOIN Team t JOIN ToDo td, over every Team
\* the user leads.
assigned_team(name, user) ==
    \E t \in TeamNames : \E m \in teams[t].members : \E td \in todos :
        /\ td.reference_type = "CRM Lead"
        /\ td.reference_name = name
        /\ td.status = "Open"
        /\ teams[t].team_leader = user
        /\ td.allocated_to = m

\* What get_permission_query_conditions returns: no filter (None), the
\* filter "1=0", or the filter (assigned_self OR assigned_team) for the user.
get_permission_query_conditions(user) ==
    IF Falsy(user) \/ user = Guest THEN [sql |-> "1=0", user |-> user]
    ELSE IF "System Manager" \in get_roles(user) THEN [sql |-> None, user |-> user]
    ELSE [sql |-> "assigned_self OR assigned_team", user |-> user]

\* The store's evaluation of a returned filter on the Lead row `name`.
Satisfies(cond, name) ==
    CASE cond.sql = None -> TRUE
      [] cond.sql = "1=0" -> FALSE
      [] OTHER -> assigned_self(name, cond.user) \/ assigned_team(name, cond.user)

\* doc._assign: the framework keeps it equal to the users of the document's
\* open ToDo rows.
_assign(name) ==
    {td.allocated_to : td \in {x \in todos : x.reference_name = name /\ x.status = "Open"}}

\* has_permission(doc, ptype, user) for the CRM Lead `name`.
has_permission(name, user) ==
    IF Falsy(user) \/ user = Guest THEN FALSE
    ELSE IF "System Manager" \in get_roles(user) THEN TRUE
    ELSE LET assigned_list == _assign(name)
             members == UNION {teams[t].members :
                                 t \in {n \in TeamNames : teams[n].team_leader = user}}
             in_tuple == {x \in members : ~Falsy(x)}
         IN  \/ user \in assigned_list
             \/ \E td \in todos :
                    /\ td.reference_type = "CRM Lead" /\ td.reference_name = name
                    /\ td.allocated_to = user /\ td.status = "Open"
             \/ \E mem \in members : ~Falsy(mem) /\ mem \in assigned_list
             \/ /\ members # {}
                /\ in_tuple # {}
                /\ \E td \in todos :
                       /\ td.reference_type = "CRM Lead" /\ td.reference_name = name
                       /\ td.status = "Open" /\ td.allocated_to \in in_tuple

\* A list query on CRM Lead by `user`: the hook's filter and the Lead rows
\* that satisfy it.
GetList(user) ==
    LET cond == get_permission_query_conditions(user)
    IN  /\ ret = Idle
        /\ ret' = [op |-> "get_list", user |-> user, cond |-> cond,
                   rows |-> {l \in Leads : Satisfies(cond, l)}]
        /\ UNCHANGED <<apiVars, assignVars, notifVars>>

\* A document permission check on the CRM Lead `name` for `user`.
HasPermission(name, user) ==
    /\ ret = Idle
    /\ ret' = [op |-> "has_permission", user |-> user, name |-> name,
               value |-> has_permission(name, user)]
    /\ UNCHANGED <<apiVars, assignVars, notifVars>>

(***************************************************************************)
(* Specification of the assignment authorizer and lead visibility          *)
(***************************************************************************)
Leaders == {"u1", "u2"}
Viewers == Users \cup {Guest, NoUser}

InitAssign ==
    /\ roles \in [Users -> SUBSET Roles]
    /\ roles[Administrator] = Roles
    /\ roles["u2"] = {"Sales User"}
    /\ roles["u3"] = {}
    /\ teams \in [TeamNames -> [team_leader : Leaders,
                                 members : SUBSET (Assignees \cup {NoUser})]]
    /\ teams["T2"].members \subseteq {"u3"}
    /\ todos = {}
    /\ enabled = Users
    /\ NotifOff
    /\ ApiOff
    /\ ret = Idle

NextAssign ==
    \/ \E actor \in {Administrator, "u1"}, name \in Leads,
          users_arg \in SeqUpTo(Assignees \cup {NoUser}, MaxUsers),
          has_read \in BOOLEAN :
            assign_lead(actor, name, users_arg, has_read)
    \/ \E td \in todos : CloseToDo(td)
    \/ \E user \in Viewers : GetList(user)
    \/ \E name \in Leads, user \in Viewers : HasPermission(name, user)
    \/ Return

SpecAssign == InitAssign /\ [][NextAssign]_vars

(***************************************************************************)
(* Assignable users and the ToDo guard: assign_to.py                       *)
(***************************************************************************)
\* Mutant: the enabled filter is dropped.
EnabledAmongAll(names) == names

\* frappe.get_all("User", filters={"enabled": 1, "name": ("in", names)}):
\* the names of the rows found.
EnabledAmong(names) == names \cap enabled

\* What get_assignable_users returns for the session user `me`, as the set
\* of the names of the rows.
AssignableUsers(me) ==
    IF _is_privileged(me) THEN EnabledAmong(Users)
    ELSE IF _is_sales_manager(me)
    THEN LET allowed == _team_members_of(me)
         IN  IF allowed = {} THEN {} ELSE EnabledAmong(allowed)
    ELSE {}

get_assignable_users(me) ==
    /\ ret = Idle
    /\ ret' = [op |-> "get_assignable_users", me |-> me, ok |-> TRUE,
               value |-> AssignableUsers(me)]
    /\ UNCHANGED <<apiVars, assignVars, notifVars>>

\* validate_todo_assignment(doc) for a ToDo about to be created by
\* `session_user`: TRUE when it returns, FALSE when it throws.
validate_todo_assignment(doc, session_user) ==
    IF Falsy(doc.reference_type) \/ Falsy(doc.reference_name) \/ Falsy(doc.owner)
    THEN TRUE
    ELSE LET actor == IF Falsy(doc.assigned_by) THEN session_user ELSE doc.assigned_by
         IN  IF _is_privileged(actor) THEN TRUE
             ELSE IF _is_sales_user(actor) THEN FALSE
             ELSE IF _is_sales_manager(actor)
             THEN doc.owner \in _team_members_of(actor)
             ELSE TRUE

\* A ToDo is created through the low-level API: the guard runs on it, and
\* the row is stored when the guard returns.
InsertToDo(doc, session_user) ==
    LET accepted == validate_todo_assignment(doc, session_user)
        row == [reference_type |-> doc.reference_type,
                reference_name |-> doc.reference_name,
                allocated_to |-> doc.allocated_to, status |-> "Open"]
    IN  /\ ret = Idle
        /\ ret' = [op |-> "insert_todo", session_user |-> session_user, doc |-> doc,
                   ok |-> accepted,
                   exc |-> IF accepted THEN None ELSE "PermissionError"]
        /\ todos' = IF accepted THEN todos \cup {row} ELSE todos
        /\ UNCHANGED <<apiVars, roles, teams, enabled, notifVars>>

(***************************************************************************)
(* Specification of the assignable users and the ToDo guard                *)
(***************************************************************************)
\* The ToDo documents created: linked to the Lead or to nothing, owned by
\* their creator, by their assignee (the older ToDo layout) or by nobody yet.
ToDoDocs(session_user) ==
    {doc \in [reference_type : {"CRM Lead", None}, reference_name : Leads,
              owner : {session_user, NoUser} \cup Assignees,
              assigned_by : {None, session_user},
              allocated_to : Assignees] :
        doc.owner \in {session_user, NoUser, doc.allocated_to}}

InitPolicy ==
    /\ roles \in [Users -> SUBSET Roles]
    /\ roles[Administrator] = Roles
    /\ roles["u2"] = {"Sales User"}
    /\ roles["u3"] = {}
    /\ teams \in [TeamNames -> [team_leader : Leaders,
                                 members : SUBSET (Assignees \cup {NoUser})]]
    /\ teams["T2"].members \subseteq {"u3"}
    /\ todos = {}
    /\ enabled \in {Users, Users \ {"u2"}, Users \ {"u3"}}
    /\ NotifOff
    /\ ApiOff
    /\ ret = Idle

NextPolicy ==
    \/ \E me \in Users : get_assignable_users(me)
    \/ \E session_user \in {Administrator, "u1"} :
          \E doc \in ToDoDocs(session_user) : InsertToDo(doc, session_user)
    \/ Return

SpecPolicy == InitPolicy /\ [][NextPolicy]_vars

(***************************************************************************)
(* Specification of visibility over assignments made through the ToDo API  *)
(***************************************************************************)
\* The ToDo documents the Administrator links to a Lead, for a user or with
\* the assignee left empty.
LinkedToDos ==
    [reference_type : {"CRM Lead"}, reference_name : Leads,
     owner : {Administrator}, assigned_by : {None},
     allocated_to : Assignees \cup {NoUser}]

NextVisible ==
    \/ \E doc \in LinkedToDos : InsertToDo(doc, Administrator)
    \/ \E td \in todos : CloseToDo(td)
    \/ \E user \in Viewers : GetList(user)
    \/ \E name \in Leads, user \in Viewers : HasPermission(name, user)
    \/ Return

SpecVisible == InitAssign /\ [][NextVisible]_vars

(***************************************************************************)
(* Notification aggregator: crm/api/notifications.py                       *)
(***************************************************************************)
NUsers == {"u1", "u2"}      \* the users notifications are addressed to
NoName == 0                 \* an empty notification name: falsy
NoTime == 0                 \* a row without creation time (NULL)
MaxLog == 2                 \* most Notification Log rows
MaxLegacy == 1              \* most CRM Notification rows
MaxTime == 2                \* latest creation time a row is inserted with
MaxLimit == 3               \* largest limit passed to list_portal_notifications
Now == MaxTime + 1          \* frappe.utils.now_datetime(): after every creation

\* limit_page_length of the Notification Log query of _get_unseen_count_for.
\* It is 500 in the source; the model scales it down with MaxLog, so that a
\* user can have more rows than one query fetches.
UnseenPageLength == 1

\* The least number of rows list_portal_notifications asks each source for.
ListMinFetch == 200

\* frappe.db.has_column("Notification Log", col)
_has(col) == col \in ncols

_seen_column_name ==
    IF _has("seen") THEN "seen"
    ELSE IF _has("read") THEN "read"
    ELSE None

\* Mutant: every row counts as unseen.
BoolSeenNever(row, seen_col) == FALSE

_bool_seen(row, seen_col) ==
    IF seen_col = None THEN FALSE
    ELSE IF seen_col \in DOMAIN row THEN row[seen_col] ELSE FALSE

\* A Notification Log row: the standard columns and the optional ones the
\* table has.  The seen/read flag is FALSE or TRUE (0 or 1).
LogRowAbout(name, for_user, owner, from_user, flag, creation, document_type) ==
    [c \in {"name", "for_user", "owner", "creation", "document_type"} \cup ncols |->
        CASE c = "name" -> name
          [] c = "for_user" -> for_user
          [] c = "owner" -> owner
          [] c = "creation" -> creation
          [] c = "from_user" -> from_user
          [] c = "document_type" -> document_type
          [] OTHER -> flag]

\* A Notification Log row about no document.
LogRow(name, for_user, owner, from_user, flag, creation) ==
    LogRowAbout(name, for_user, owner, from_user, flag, creation, None)

\* A CRM Notification row; its read column always exists.
LegacyRow(name, to_user, read, creation) ==
    [name |-> name, to_user |-> to_user, read |-> read, creation |-> creation,
     comment |-> None, notification_type_doc |-> None, reference_doctype |-> None]

\* or_filters = [{"for_user": user}, {"owner": user}] (+ {"from_user": user})
OrFilters(row, user) ==
    \/ row["for_user"] = user
    \/ row["owner"] = user
    \/ (_has("from_user") /\ row["from_user"] = user)

CreationOf(row) == row["creation"]

\* frappe.get_all("Notification Log", or_filters=..., order_by="creation desc",
\* limit_page_length=page_length) on the table `log`.
GetAllLog(log, user, page_length) ==
    SliceTo(SortDescBy(SelectSeq(log, LAMBDA r : OrFilters(r, user)), CreationOf),
            page_length)

\* _get_unseen_count_for(user), evaluated on the tables `log` and `legacy`.
UnseenCountIn(log, legacy, user) ==
    LET seen_col == _seen_column_name
        rows == GetAllLog(log, user, UnseenPageLength)
        total == Cardinality({i \in 1..Len(rows) : ~_bool_seen(rows[i], seen_col)})
    IN  IF crm_table
        THEN total + Cardinality({i \in 1..Len(legacy) :
                        legacy[i].to_user = user /\ legacy[i].read = FALSE})
        ELSE total

_get_unseen_count_for(user) == UnseenCountIn(nlog, crmn, user)

\* get_unseen_count() and its alias get_unread_count(), for the session user.
get_unseen_count(user, endpoint) ==
    /\ ret = Idle
    /\ ret' = [op |-> endpoint, user |-> user, value |-> _get_unseen_count_for(user)]
    /\ UNCHANGED <<apiVars, assignVars, notifVars>>

\* _broadcast_count(user) on the tables `log` and `legacy`: the message
\* handed to frappe.publish_realtime.
\* Mutant: the count pushed is the one of the tables before the update.
BroadcastCountBefore(log, legacy, user) ==
    [event |-> "crm_portal_notification", user |-> user,
     unseen |-> UnseenCountIn(nlog, crmn, user)]

\* _broadcast_count(user) on the tables `log` and `legacy`: the message
\* handed to frappe.publish_realtime.
BroadcastCount(log, legacy, user) ==
    [event |-> "crm_portal_notification", user |-> user,
     unseen |-> UnseenCountIn(log, legacy, user)]

\* Mutant: the update is not keyed by name and flags every row.
SetValueEveryRow(table, name, col) ==
    [i \in 1..Len(table) |-> [table[i] EXCEPT ![col] = TRUE]]

\* frappe.db.set_value(doctype, name, col, 1) and doc.<col> = 1; doc.save():
\* the row called `name` gets the flag, no other row changes, and a name no
\* row has changes nothing.
SetValue(table, name, col) ==
    [i \in 1..Len(table) |->
        IF table[i].name = name THEN [table[i] EXCEPT ![col] = TRUE] ELSE table[i]]

Exists(table, name) == \E i \in 1..Len(table) : table[i].name = name

\* The number of rows two versions of a table differ in.
Changed(old, new) == Cardinality({i \in 1..Len(old) : old[i] # new[i]})

\* The tables as mark_portal_seen(name, source) leaves them, and how it ends.
MarkPortalSeenOutcome(name, source) ==
    LET seen_col == _seen_column_name
    IN  IF name = NoName
        THEN [ok |-> FALSE, exc |-> "ValidationError", log |-> nlog, legacy |-> crmn]
        ELSE IF source = "Notification Log"
        THEN IF seen_col # None
             THEN [ok |-> TRUE, exc |-> None,
                   log |-> SetValue(nlog, name, seen_col), legacy |-> crmn]
             ELSE IF Exists(nlog, name)
             \* the row has no seen column to store the attribute in
             THEN [ok |-> TRUE, exc |-> None, log |-> nlog, legacy |-> crmn]
             ELSE [ok |-> FALSE, exc |-> "DoesNotExistError", log |-> nlog, legacy |-> crmn]
        ELSE IF source = "CRM Notification"
        THEN IF crm_table /\ Exists(crmn, name)
             THEN [ok |-> TRUE, exc |-> None,
                   log |-> nlog, legacy |-> SetValue(crmn, name, "read")]
             ELSE [ok |-> FALSE, exc |-> "DoesNotExistError", log |-> nlog, legacy |-> crmn]
        ELSE [ok |-> FALSE, exc |-> "ValidationError", log |-> nlog, legacy |-> crmn]

\* mark_portal_seen(name, source) called by the session user `user`.
mark_portal_seen(user, name, source) ==
    LET out == MarkPortalSeenOutcome(name, source)
    IN  /\ ret = Idle
        /\ nlog' = out.log
        /\ crmn' = out.legacy
        /\ ret' = [op |-> "mark_portal_seen", user |-> user, name |-> name,
                   source |-> source, ok |-> out.ok, exc |-> out.exc,
                   updated |-> Changed(nlog, out.log) + Changed(crmn, out.legacy),
                   pushes |-> IF out.ok
                              THEN <<BroadcastCount(out.log, out.legacy, user)>>
                              ELSE <<>>]
        /\ UNCHANGED <<apiVars, assignVars, ncols, crm_table>>

\* Mutant: the document filter looks at the comment only.
MatchesDocCommentOnly(row, doc) == Falsy(doc) \/ row.comment = doc

\* or_filters = [{"comment": doc}, {"notification_type_doc": doc}] when a
\* doc is given, no or_filters otherwise.
MatchesDoc(row, doc) ==
    Falsy(doc) \/ row.comment = doc \/ row.notification_type_doc = doc

\* mark_as_read(user, doc) called by `session_user`: every row the query
\* returns is loaded, flagged and saved, then the count is pushed.
mark_as_read(session_user, user_arg, doc) ==
    LET user == IF Falsy(user_arg) THEN session_user ELSE user_arg
        selected == {i \in 1..Len(crmn) : /\ crmn[i].to_user = user
                                          /\ crmn[i].read = FALSE
                                          /\ MatchesDoc(crmn[i], doc)}
        legacy == [i \in 1..Len(crmn) |->
                      IF i \in selected THEN [crmn[i] EXCEPT !.read = TRUE]
                      ELSE crmn[i]]
    IN  /\ ret = Idle
        /\ crmn' = IF crm_table THEN legacy ELSE crmn
        /\ ret' = [op |-> "mark_as_read", session_user |-> session_user,
                   user_arg |-> user_arg, user |-> user, doc |-> doc,
                   ok |-> crm_table,
                   exc |-> IF crm_table THEN None ELSE "DoesNotExistError",
                   updated |-> IF crm_table THEN Cardinality(selected) ELSE 0,
                   pushes |-> IF crm_table
                              THEN <<BroadcastCount(nlog, legacy, user)>>
                              ELSE <<>>]
        /\ UNCHANGED <<apiVars, assignVars, ncols, crm_table, nlog>>

\* A Notification Log row is inserted by the framework.
InsertLog(row) ==
    /\ ret = Idle
    /\ Len(nlog) < MaxLog
    /\ nlog' = Append(nlog, row)
    /\ UNCHANGED <<apiVars, assignVars, ncols, crm_table, crmn, ret>>

\* A CRM Notification row is inserted.
InsertLegacy(row) ==
    /\ ret = Idle
    /\ crm_table
    /\ Len(crmn) < MaxLegacy
    /\ crmn' = Append(crmn, row)
    /\ UNCHANGED <<apiVars, assignVars, ncols, crm_table, nlog, ret>>

(***************************************************************************)
(* Specification of the unseen count and mark-seen                         *)
(***************************************************************************)
\* The store with no assignment data.
AssignOff ==
    /\ roles = [u \in Users |-> {}]
    /\ teams = [t \in TeamNames |-> [team_leader |-> "u1", members |-> {}]]
    /\ todos = {}
    /\ enabled = Users

Sources == {"Notification Log", "CRM Notification", "Email"}

\* The sets of optional Notification Log columns the model starts with.
LogSchemas == {{"from_user"}, {"from_user", "seen"}, {"from_user", "read"}, {"seen"}}

InitNotif ==
    /\ AssignOff
    /\ ncols \in LogSchemas
    /\ crm_table \in BOOLEAN
    /\ nlog = <<>>
    /\ crmn = <<>>
    /\ ApiOff
    /\ ret = Idle

\* Rows are created one after the other: the k-th row of a table at time k.
\* The sender of a log row is the user who owns it.
NextNotif ==
    \/ \E for_user \in NUsers, owner \in NUsers, flag \in BOOLEAN :
          /\ (flag => _seen_column_name # None)
          /\ InsertLog(LogRow(Len(nlog) + 1, for_user, owner, owner, flag, Len(nlog) + 1))
    \/ \E to_user \in NUsers, read \in BOOLEAN :
          InsertLegacy(LegacyRow(Len(crmn) + 1, to_user, read, Len(crmn) + 1))
    \/ \E user \in NUsers, name \in 0..MaxLog, source \in Sources :
          mark_portal_seen(user, name, source)
    \/ \E user \in NUsers, endpoint \in {"get_unseen_count", "get_unread_count"} :
          get_unseen_count(user, endpoint)
    \/ Return

SpecNotif == InitNotif /\ [][NextNotif]_vars

(***************************************************************************)
(* Specification of legacy read-marking                                    *)
(***************************************************************************)
MaxRead == 2                \* most CRM Notification rows read-marking meets
Docs == {"D1", "D2"}        \* the documents notifications are about

\* The CRM Notification tables of n rows.
LegacyTables(n) ==
    {t \in [1..n -> [name : 1..n, to_user : NUsers, read : BOOLEAN,
                     creation : 1..n, comment : {None, "D1"},
                     notification_type_doc : {None, "D1"},
                     reference_doctype : {None}]] :
        \A i \in 1..n : t[i].name = i /\ t[i].creation = i}

InitRead ==
    /\ AssignOff
    /\ ncols = {}
    /\ nlog = <<>>
    /\ crm_table \in BOOLEAN
    /\ \E n \in 0..MaxRead : crmn \in LegacyTables(n)
    /\ crm_table = FALSE => crmn = <<>>
    /\ ApiOff
    /\ ret = Idle

NextRead ==
    \/ \E session_user \in NUsers, user_arg \in NUsers \cup {None},
          doc \in Docs \cup {None, ""} :
          mark_as_read(session_user, user_arg, doc)
    \/ Return

SpecRead == InitRead /\ [][NextRead]_vars

(***************************************************************************)
(* The merged feed: list_portal_notifications                              *)
(***************************************************************************)
\* _nlog_to_portal_dict(row, seen_col): the fields the feed is ordered and
\* told apart by.
\* CRM_DTYPES.get(dt) if dt else None
_map_ref_doctype(dt) ==
    IF Falsy(dt) THEN None
    ELSE CASE dt = "CRM Lead" -> "lead" [] dt = "CRM Deal" -> "deal" [] OTHER -> None

\* CRM_ROUTE.get(dt) if dt else None
_map_route(dt) ==
    IF Falsy(dt) THEN None
    ELSE CASE dt = "CRM Lead" -> "Lead" [] dt = "CRM Deal" -> "Deal" [] OTHER -> None

_nlog_to_portal_dict(row, seen_col) ==
    [creation |-> row["creation"],
     to_user |-> IF Falsy(row["for_user"]) THEN row["owner"] ELSE row["for_user"],
     read |-> _bool_seen(row, seen_col),
     reference_doctype |-> _map_ref_doctype(row["document_type"]),
     route_name |-> _map_route(row["document_type"]),
     source |-> "Notification Log",
     name |-> row["name"]]

\* _list_crm_notifications(limit) for the session user.
_list_crm_notifications(user, limit) ==
    LET notifications ==
            SortDescBy(SelectSeq(crmn, LAMBDA n : n.to_user = user), CreationOf)
        page == SliceTo(notifications, limit)
    IN  [i \in 1..Len(page) |->
            [creation |-> page[i].creation, to_user |-> page[i].to_user,
             read |-> page[i].read,
             reference_doctype |->
                IF page[i].reference_doctype = "CRM Deal" THEN "deal" ELSE "lead",
             route_name |->
                IF page[i].reference_doctype = "CRM Deal" THEN "Deal" ELSE "Lead",
             source |-> "CRM Notification",
             name |-> page[i].name]]

\* key=lambda x: x.get("creation") or frappe.utils.now_datetime()
SortKey(x) == IF x.creation = NoTime THEN Now ELSE x.creation

\* out.sort(key=..., reverse=True)
SortMerged(out) == SortDescBy(out, SortKey)

\* list_portal_notifications(limit, include_legacy) for the session user.
\* With include_legacy set, the query on a missing CRM Notification table
\* raises.
list_portal_notifications(user, limit, include_legacy) ==
    LET seen_col == _seen_column_name
        base_rows == GetAllLog(nlog, user, Max(limit, ListMinFetch))
        out == [i \in 1..Len(base_rows) |-> _nlog_to_portal_dict(base_rows[i], seen_col)]
        legacy == IF include_legacy
                  THEN _list_crm_notifications(user, Max(limit, ListMinFetch))
                  ELSE <<>>
    IN  /\ ret = Idle
        /\ ret' = IF include_legacy /\ ~crm_table
                  THEN [op |-> "list_portal_notifications", user |-> user,
                        limit |-> limit, include_legacy |-> include_legacy,
                        ok |-> FALSE, exc |-> "DoesNotExistError", value |-> <<>>]
                  ELSE [op |-> "list_portal_notifications", user |-> user,
                        limit |-> limit, include_legacy |-> include_legacy,
                        ok |-> TRUE, exc |-> None,
                        value |-> SliceTo(SortMerged(out \o legacy), limit)]
        /\ UNCHANGED <<apiVars, assignVars, notifVars>>

(***************************************************************************)
(* Specification of the merged feed                                        *)
(***************************************************************************)
\* One user's notifications, created at any time up to MaxTime or without
\* creation time, in any order of insertion.
NextFeed ==
    \/ \E creation \in 0..MaxTime :
          InsertLog(LogRow(Len(nlog) + 1, "u1", "u1", "u1", FALSE, creation))
    \/ \E creation \in 0..MaxTime :
          InsertLegacy(LegacyRow(Len(crmn) + 1, "u1", FALSE, creation))
    \/ \E user \in NUsers, limit \in -1..MaxLimit, include_legacy \in BOOLEAN :
          list_portal_notifications(user, limit, include_legacy)
    \/ Return

SpecFeed == InitNotif /\ [][NextFeed]_vars

(***************************************************************************)
(* Specification of the reference mapping of the feed                      *)
(***************************************************************************)
MaxRefs == 1                \* most rows of each source the mapping meets
DocTypes == {"CRM Lead", "CRM Deal", "CRM Task", None}

\* One user's notifications about documents of any type or about none.
InitRefs ==
    /\ AssignOff
    /\ ncols \in LogSchemas
    /\ crm_table \in BOOLEAN
    /\ \E n \in 0..MaxRefs : \E dts \in [1..n -> DocTypes] :
          nlog = [i \in 1..n |-> LogRowAbout(i, "u1", "u1", "u1", FALSE, i, dts[i])]
    /\ \E n \in 0..MaxRefs : \E dts \in [1..n -> DocTypes] :
          crmn = [i \in 1..n |->
                    [LegacyRow(i, "u1", FALSE, i) EXCEPT !.reference_doctype = dts[i]]]
    /\ crm_table = FALSE => crmn = <<>>
    /\ ApiOff
    /\ ret = Idle

NextRefs ==
    \/ \E user \in NUsers, limit \in 0..MaxLimit, include_legacy \in BOOLEAN :
          list_portal_notifications(user, limit, include_legacy)
    \/ Return

SpecRefs == InitRefs /\ [][NextRefs]_vars

(***************************************************************************)
(* OAuth configuration endpoint: crm/api/mobile_api.py                     *)
(***************************************************************************)
\* Host names, header values and configuration strings are sequences of
\* one-character strings, so that lower(), strip() and split() are computed
\* character by character.  The empty sequence stands for None as well as
\* for "": both are falsy.
NoStr == <<>>
s_crm == <<"c", "r", "m">>
s_a_io == <<"a", ".", "i", "o">>
s_A_io_80 == <<"A", ".", "i", "o", ":", "8", "0">>
s_b_io == <<"b", ".", "i", "o">>
s_localhost == <<"l", "o", "c", "a", "l", "h", "o", "s", "t">>
s_loopback == <<"1", "2", "7", ".", "0", ".", "0", ".", "1">>
s_a_io_b_io == s_a_io \o <<",", " ">> \o s_b_io
s_Crm_padded == <<" ", "C", "r", "m", " ">>
s_a_io_crm == s_a_io \o <<",">> \o s_crm

\* str.lower(), for the capitals the model's strings hold.
LowerChar(c) == CASE c = "A" -> "a" [] c = "C" -> "c" [] OTHER -> c
Lower(str) == [i \in 1..Len(str) |-> LowerChar(str[i])]

\* str.strip(): without leading and trailing blanks.
Strip(str) ==
    LET inked == {i \in 1..Len(str) : str[i] # " "}
    IN  IF inked = {} THEN <<>>
        ELSE SubSeq(str, CHOOSE i \in inked : \A j \in inked : i <= j,
                         CHOOSE i \in inked : \A j \in inked : i >= j)

\* str.split(sep)[0]: what precedes the first sep, or all of str.
SplitFirst(str, sep) ==
    LET at == {i \in 1..Len(str) : str[i] = sep}
    IN  IF at = {} THEN str
        ELSE SubSeq(str, 1, (CHOOSE i \in at : \A j \in at : i <= j) - 1)

\* str.replace(",", " ").split(): the maximal runs of characters other than
\* comma and blank, in order.
RECURSIVE SplitWords(_)
SplitWords(str) ==
    LET body == {i \in 1..Len(str) : str[i] \notin {",", " "}}
    IN  IF body = {} THEN <<>>
        ELSE LET from == CHOOSE i \in body : \A j \in body : i <= j
                 stops == {i \in from..Len(str) : str[i] \in {",", " "}}
                 to == IF stops = {} THEN Len(str)
                       ELSE (CHOOSE i \in stops : \A j \in stops : i <= j) - 1
             IN  <<SubSeq(str, from, to)>> \o SplitWords(SubSeq(str, to + 1, Len(str)))

\* Lines 175-183: X-Forwarded-Host, its first entry when it is a list, comes
\* before Host.
HeaderHost(request) ==
    IF request.x_forwarded_host # NoStr
    THEN IF \E i \in 1..Len(request.x_forwarded_host) : request.x_forwarded_host[i] = ","
         THEN Strip(SplitFirst(request.x_forwarded_host, ","))
         ELSE request.x_forwarded_host
    ELSE request.host

\* Line 195: host.lower().split(":")[0].strip()
NormalizeHost(host) == Strip(SplitFirst(Lower(host), ":"))

\* Lines 213-226: the configured domains and host_name, lowercased and
\* stripped.  A domains list with an entry that is not a string raises.
ConfigRaises(config) ==
    \/ ~config.readable
    \/ config.domains.kind = "list" /\ config.domains.malformed

ConfiguredDomains(config) ==
    LET d == config.domains
        listed == IF d.kind = "list"
                  THEN {Strip(Lower(d.val[i])) : i \in 1..Len(d.val)}
                  ELSE IF d.kind = "str"
                  THEN {Strip(Lower(w)) : w \in Range(SplitWords(d.val))}
                  ELSE {}
        host_name == IF config.host_name # NoStr
                     THEN {Strip(Lower(config.host_name))}
                     ELSE {}
    IN  listed \cup host_name

\* Lines 231-235 and 248-251: with no domain configured, or a configuration
\* that cannot be read, the site name is allowed when the host equals it.
SiteNameFallback(host, site_name) ==
    IF host = Strip(Lower(site_name)) THEN {Strip(Lower(site_name))} ELSE {}

\* _validate_host(): "ok", or the reason it throws for.
_validate_host(request) ==
    IF ~request.present THEN "no request"
    ELSE IF HeaderHost(request) = NoStr THEN "no host"
    ELSE IF site = NoStr THEN "no site"
    ELSE LET host == NormalizeHost(HeaderHost(request))
             allowed_domains ==
                 IF ConfigRaises(site_config) THEN SiteNameFallback(host, site)
                 ELSE IF ConfiguredDomains(site_config) = {}
                      THEN SiteNameFallback(host, site)
                      ELSE ConfiguredDomains(site_config)
         IN  IF host \in allowed_domains THEN "ok" ELSE "denied"

\* What get_oauth_config returns nothing of when it throws.
NoConfig == [client_id |-> "", scope |-> "", redirect_uri |-> ""]

\* The client_id the n-th OAuth Client inserted gets (auto-generated, each
\* different from the others).
GeneratedClientId(n) == IF n = 1 THEN "generated-client-1" ELSE "generated-client-n"

\* Mutant: a client is created whether or not the settings hold a client_id.
NeedsClientAlways(settings) == TRUE

\* Line 380, `if settings.client_id: return settings`, negated.
NeedsClient(settings) == settings.client_id = ""

\* _ensure_mobile_oauth_settings(): the settings it leaves, and whether it
\* raises.  The site directory and database checks are one flag; a missing
\* settings document is one with empty fields.  oauth.clients counts the
\* OAuth Client documents inserted.
_ensure_mobile_oauth_settings ==
    IF site = NoStr \/ ~oauth.site_ok \/ ~oauth.doctype
    THEN [raises |-> TRUE, settings |-> oauth]
    ELSE IF ~NeedsClient(oauth)
    THEN [raises |-> FALSE, settings |-> oauth]
    ELSE IF ~oauth.provider
    THEN [raises |-> TRUE, settings |-> oauth]
    ELSE [raises |-> FALSE,
          settings |-> [oauth EXCEPT !.client_id = GeneratedClientId(oauth.clients + 1),
                                     !.scope = "all openid",
                                     !.redirect_uri = "app.trust://oauth2redirect",
                                     !.clients = @ + 1]]

\* Mutant: step 2 runs whatever the validation of the host says.
EnsureRunsAlways(validated) == TRUE

\* _validate_host() is the first statement of get_oauth_config and raises
\* for a rejected host: step 2 runs for an accepted host only.
EnsureRuns(validated) == validated = "ok"

\* get_oauth_config() for a request.
get_oauth_config(request) ==
    LET validated == _validate_host(request)
        ensured == _ensure_mobile_oauth_settings
        settings == ensured.settings
    IN  /\ ret = Idle
        /\ IF validated # "ok"
           THEN /\ ret' = [op |-> "get_oauth_config", request |-> request,
                           validated |-> validated, created |-> FALSE, ok |-> FALSE,
                           exc |-> "ValidationError", value |-> NoConfig]
                /\ oauth' = IF EnsureRuns(validated) /\ ~ensured.raises
                            THEN settings ELSE oauth
           ELSE IF ensured.raises \/ settings.client_id = ""
           THEN /\ ret' = [op |-> "get_oauth_config", request |-> request,
                           validated |-> validated, created |-> FALSE, ok |-> FALSE,
                           exc |-> "ValidationError", value |-> NoConfig]
                /\ oauth' = oauth
           ELSE /\ ret' = [op |-> "get_oauth_config", request |-> request,
                           validated |-> validated,
                           created |-> settings.clients # oauth.clients,
                           ok |-> TRUE, exc |-> None,
                           value |-> [client_id |-> settings.client_id,
                                      scope |-> IF settings.scope = ""
                                                THEN "all openid" ELSE settings.scope,
                                      redirect_uri |->
                                          IF settings.redirect_uri = ""
                                          THEN "app.trust://oauth2redirect"
                                          ELSE settings.redirect_uri]]
                /\ oauth' = settings
        /\ UNCHANGED <<assignVars, notifVars, site, site_config, taskVars>>

(***************************************************************************)
(* Installation hook: crm/install.py                                       *)
(***************************************************************************)
\* What run_bootstrap(include_user_keys=True) can do: return a result with
\* ok set, one without, something that is no result at all, or raise.
BootstrapOutcomes ==
    {[kind |-> "ok", exc |-> None], [kind |-> "not ok", exc |-> None],
     [kind |-> "no result", exc |-> None],
     [kind |-> "raises", exc |-> "ValidationError"],
     [kind |-> "raises", exc |-> "OperationalError"]}

\* run_bootstrap: with an ok result the settings hold the id of an OAuth
\* Client, created when they held none; otherwise nothing is stored.
run_bootstrap(outcome) ==
    IF outcome.kind = "ok" /\ oauth.client_id = ""
    THEN [oauth EXCEPT !.client_id = GeneratedClientId(oauth.clients + 1),
                       !.scope = "all openid",
                       !.redirect_uri = "app.trust://oauth2redirect",
                       !.clients = @ + 1]
    ELSE oauth

\* Mutant: the handler catches validation errors only.
ExceptCatchesValidationOnly(exc) == exc = "ValidationError"

\* `except Exception as e`: every exception the try block raises.
ExceptCatches(exc) == TRUE

\* after_install(): the log calls it makes, in order, and whether it returns.
\* result.get on something that is no result raises AttributeError inside
\* the try block.
after_install(outcome) ==
    LET raised == IF outcome.kind = "raises" THEN outcome.exc
                  ELSE IF outcome.kind = "no result" THEN "AttributeError"
                  ELSE None
        caught == raised # None /\ ExceptCatches(raised)
        calls == <<"log: running">>
                 \o (IF outcome.kind = "ok" THEN <<"log: completed", "log: client id">>
                     ELSE IF outcome.kind = "not ok" THEN <<"log: had issues">>
                     ELSE IF caught THEN <<"log_error: failed", "log: failed">>
                     ELSE <<>>)
    IN  /\ ret = Idle
        /\ outcome.kind = "ok" =>
              oauth.site_ok /\ oauth.doctype /\ (oauth.client_id # "" \/ oauth.provider)
        /\ ret' = [op |-> "after_install", outcome |-> outcome,
                   ok |-> (raised = None \/ caught),
                   exc |-> IF raised = None \/ caught THEN None ELSE raised,
                   calls |-> calls]
        /\ oauth' = run_bootstrap(outcome)
        /\ UNCHANGED <<assignVars, notifVars, site, site_config, taskVars>>

(***************************************************************************)
(* Specification of the OAuth configuration endpoint                       *)
(***************************************************************************)
SiteNames == {NoStr, s_crm, s_localhost}

DomainsSettings ==
    {[kind |-> "none", val |-> <<>>, malformed |-> FALSE],
     [kind |-> "list", val |-> <<s_a_io>>, malformed |-> FALSE],
     [kind |-> "list", val |-> <<s_a_io, s_localhost>>, malformed |-> FALSE],
     [kind |-> "list", val |-> <<s_a_io>>, malformed |-> TRUE],
     [kind |-> "str", val |-> s_a_io_crm, malformed |-> FALSE]}

SiteConfigs ==
    {[readable |-> FALSE]}
    \cup [readable : {TRUE}, domains : DomainsSettings,
          host_name : {NoStr, s_Crm_padded}]

StoredSettings ==
    {[client_id |-> "", scope |-> "", redirect_uri |-> ""],
     [client_id |-> "stored-client-id", scope |-> "", redirect_uri |-> ""],
     [client_id |-> "stored-client-id", scope |-> "openid",
      redirect_uri |-> "app.trust://oauth2redirect"]}

Requests ==
    {[present |-> FALSE, x_forwarded_host |-> NoStr, host |-> NoStr]}
    \cup [present : {TRUE},
          x_forwarded_host : {NoStr, s_b_io, s_a_io_b_io},
          host : {NoStr, s_a_io, s_A_io_80, s_b_io, s_crm, s_localhost, s_loopback}]

InitHost ==
    /\ AssignOff
    /\ NotifOff
    /\ site \in SiteNames
    /\ site_config \in SiteConfigs
    /\ \E st \in StoredSettings, site_ok \in BOOLEAN, doctype \in BOOLEAN,
          provider \in BOOLEAN :
          oauth = [site_ok |-> site_ok, doctype |-> doctype, provider |-> provider,
                   client_id |-> st.client_id, scope |-> st.scope,
                   redirect_uri |-> st.redirect_uri, clients |-> 0]
    /\ tasks = <<>>
    /\ edits = NoEdits
    /\ ret = Idle

NextHost ==
    \/ \E request \in Requests : get_oauth_config(request)
    \/ \E outcome \in BootstrapOutcomes : after_install(outcome)
    \/ Return

SpecHost == InitHost /\ [][NextHost]_vars

(***************************************************************************)
(* Task API: crm/api/mobile_api.py                                         *)
(***************************************************************************)
MaxTasks == 3               \* most CRM Task rows
MaxPage == 3                \* largest page number asked for
MaxPageSize == 2            \* largest limit asked for
DefaultLimit == 20          \* cint(limit) or 20
DefaultPage == 1            \* cint(page) or 1

TaskTypes == {"Call", "Meeting"}
Statuses == {"Todo", "Done"}
Priorities == {"Medium", "High"}

\* Dates are days counted from today(), the day of the calls.
Today == 0

\* Mutant: an argument is used as passed, without default.
DefaultToNever(v, default) == v

\* if not v: v = default
DefaultTo(v, default) == IF Falsy(v) THEN default ELSE v

\* A name in an assignment that is no User row.
Ghost == "ghost"

\* The errors the store raises during one call: reading the ToDo table,
\* loading the task document, loading the User rows of `users`.
Faults == [todo_read : BOOLEAN, task_read : BOOLEAN, users : SUBSET Assignees]
NoFaults == [todo_read |-> FALSE, task_read |-> FALSE, users |-> {}]

\* The names of the stored tasks, and the place of one of them.
TaskNames == {tasks[i].name : i \in 1..Len(tasks)}
TaskIndex(name) == CHOOSE i \in 1..Len(tasks) : tasks[i].name = name

\* frappe.get_doc("User", email) returns a document.
UserResolves(email, faults) == email \in Users /\ email \notin faults.users

\* _get_assigned_users("CRM Task", docname): whether it raises, and the
\* users it returns otherwise.
_get_assigned_users(docname, faults) ==
    LET rows == {td \in todos : /\ td.reference_type = "CRM Task"
                                /\ td.reference_name = docname
                                /\ td.status = "Open"}
        from_todo == {td.allocated_to : td \in rows} \ {None, NoUser}
        stored == docname \in TaskNames
        field == IF stored THEN tasks[TaskIndex(docname)].assigned_to ELSE None
        user_emails == IF from_todo # {} THEN from_todo
                       ELSE IF Falsy(field) THEN {} ELSE {field}
    IN  [raises |-> \/ faults.todo_read
                    \/ from_todo = {} /\ (faults.task_read \/ ~stored),
         users |-> {email \in user_emails : UserResolves(email, faults)}]

\* Mutant: an error of the resolution leaves get_compact_task.
ResolutionEscapesAlways(resolved) == resolved.raises

\* try ... except Exception around the resolution (lines 122-146): no
\* error of it leaves get_compact_task.
ResolutionEscapes(resolved) == FALSE

\* get_compact_task(task) raises.
CompactRaises(task, faults) ==
    ResolutionEscapes(_get_assigned_users(task.name, faults))

\* get_compact_task(task): the fields the model keeps; assigned_to is the
\* set of the ids of the users listed.
get_compact_task(task, faults) ==
    LET resolved == _get_assigned_users(task.name, faults)
    IN  [name |-> task.name, status |-> task.status, priority |-> task.priority,
         start_date |-> task.start_date, modified |-> task.modified,
         assigned_to |->
            IF resolved.raises THEN {}
            ELSE IF resolved.users # {} THEN resolved.users
            ELSE IF Falsy(task.assigned_to) THEN {}
            ELSE IF UserResolves(task.assigned_to, faults)
                 THEN {task.assigned_to} ELSE {}]

\* What a call that raised returns: nothing.
NoValue == [name |-> 0, status |-> None, priority |-> None,
            start_date |-> 0, modified |-> 0,
            assigned_to |-> {}]

\* The values of modified.  Only their equality is read, so a save takes the
\* least value that is neither the task's nor held by a call in progress.
Stamps == 0..(Cardinality(Procs) + 1)
HeldStamps == {edits[p].doc.modified : p \in {q \in Procs : edits[q].pc # "idle"}}
NextModified(stamp) ==
    CHOOSE m \in Stamps \ (HeldStamps \cup {stamp}) :
        \A n \in Stamps \ (HeldStamps \cup {stamp}) : m <= n

\* The name the store gives the next task.
NextTaskName ==
    IF tasks = <<>> THEN 1
    ELSE 1 + (CHOOSE n \in TaskNames : \A m \in TaskNames : m <= n)

\* create_task(status, priority, task_type, assigned_to).
create_task(task_type, status, priority, assigned_to, faults) ==
    LET task == [name |-> NextTaskName, task_type |-> task_type,
                 status |-> DefaultTo(status, "Todo"),
                 priority |-> DefaultTo(priority, "Medium"),
                 start_date |-> Today,
                 modified |-> 0, assigned_to |-> assigned_to]
        raises == ~Falsy(task_type) /\ CompactRaises(task, faults)
    IN  /\ ret = Idle
        /\ Len(tasks) < MaxTasks
        /\ IF Falsy(task_type)
           THEN /\ ret' = [op |-> "create_task", task_type |-> task_type,
                           status |-> status, priority |-> priority,
                           ok |-> FALSE, exc |-> "ValidationError",
                           value |-> NoValue]
                /\ tasks' = tasks
           ELSE /\ ret' = [op |-> "create_task", task_type |-> task_type,
                           status |-> status, priority |-> priority,
                           ok |-> ~raises,
                           exc |-> IF raises THEN "Exception" ELSE None,
                           value |-> IF raises THEN NoValue
                                     ELSE get_compact_task(task, faults)]
                /\ tasks' = Append(tasks, task)
        /\ UNCHANGED <<assignVars, notifVars, hostVars, edits>>

\* update_status(task_id, status); task_id 0 is an omitted one.  The save
\* stamps the task's modified.
update_status(task_id, status, faults) ==
    LET found == task_id \in TaskNames
        fails == task_id = 0 \/ Falsy(status) \/ ~found
        i == TaskIndex(task_id)
        saved == [tasks[i] EXCEPT !.status = status, !.modified = NextModified(@)]
        raises == ~fails /\ CompactRaises(saved, faults)
    IN  /\ ret = Idle
        /\ tasks' = IF fails THEN tasks ELSE [tasks EXCEPT ![i] = saved]
        /\ ret' = [op |-> "update_status", task_id |-> task_id, status |-> status,
                   faults |-> faults,
                   ok |-> ~fails /\ ~raises,
                   exc |-> IF task_id = 0 \/ Falsy(status) THEN "ValidationError"
                           ELSE IF ~found THEN "DoesNotExistError"
                           ELSE IF raises THEN "Exception" ELSE None,
                   value |-> IF fails \/ raises THEN NoValue
                             ELSE get_compact_task(saved, faults)]
        /\ UNCHANGED <<assignVars, notifVars, hostVars, edits>>

\* Lines 644-659 of edit_task: a field is set when its argument is not None.
SetFields(doc, status, priority) ==
    [doc EXCEPT !.status = IF status = None THEN @ ELSE status,
                !.priority = IF priority = None THEN @ ELSE priority]

\* Mutant: save() stores the document whatever the store holds.
SaveRejectsNever(doc) == FALSE

\* task.save() (line 661): the framework's Document.save() compares the
\* modified the document was loaded with to the stored one
\* (check_if_latest) and raises TimestampMismatchError when they differ.
SaveRejects(doc) == doc.modified # tasks[TaskIndex(doc.name)].modified

\* The document of a call that loaded none.
NoDoc == [name |-> 0, task_type |-> None, status |-> None, priority |-> None,
          start_date |-> 0, modified |-> -1, assigned_to |-> None]

\* edit_task(task_id, status, priority) with no other call between its load
\* and its save; task_id 0 is an omitted one.
edit_task(task_id, status, priority, faults) ==
    LET found == task_id \in TaskNames
        fails == task_id = 0 \/ ~found
        i == TaskIndex(task_id)
        doc == SetFields(tasks[i], status, priority)
        saved == [doc EXCEPT !.modified = NextModified(@)]
        raises == ~fails /\ CompactRaises(saved, faults)
    IN  /\ ret = Idle
        /\ tasks' = IF fails THEN tasks ELSE [tasks EXCEPT ![i] = saved]
        /\ ret' = [op |-> "edit_task", task_id |-> task_id, status |-> status,
                   priority |-> priority,
                   ok |-> ~fails /\ ~raises,
                   exc |-> IF task_id = 0 THEN "ValidationError"
                           ELSE IF ~found THEN "DoesNotExistError"
                           ELSE IF raises THEN "Exception" ELSE None,
                   value |-> IF fails \/ raises THEN NoValue
                             ELSE get_compact_task(saved, faults)]
        /\ UNCHANGED <<assignVars, notifVars, hostVars, edits>>

\* Lines 633-659 of edit_task run by worker p: the task is loaded and the
\* given fields are set on the copy.
edit_task_load(p, task_id, status, priority) ==
    LET found == task_id \in TaskNames
        fails == task_id = 0 \/ ~found
    IN  /\ ret = Idle
        /\ edits[p].pc = "idle"
        /\ edits' = [edits EXCEPT ![p] =
              [pc |-> IF fails THEN "done" ELSE "loaded",
               task_id |-> task_id, status |-> status, priority |-> priority,
               doc |-> IF fails THEN NoDoc
                       ELSE SetFields(tasks[TaskIndex(task_id)], status, priority),
               ok |-> FALSE,
               exc |-> IF task_id = 0 THEN "ValidationError"
                       ELSE IF ~found THEN "DoesNotExistError" ELSE None,
               value |-> NoValue]]
        /\ UNCHANGED <<assignVars, notifVars, hostVars, tasks, ret>>

\* Lines 661-664 of edit_task run by worker p: the copy is saved and the
\* projection of the saved document returned.
edit_task_save(p) ==
    LET doc == edits[p].doc
        saved == [doc EXCEPT !.modified = NextModified(@)]
    IN  /\ ret = Idle
        /\ edits[p].pc = "loaded"
        /\ doc.name \in TaskNames
        /\ IF SaveRejects(doc)
           THEN /\ tasks' = tasks
                /\ edits' = [edits EXCEPT ![p].pc = "done",
                                          ![p].exc = "TimestampMismatchError"]
           ELSE /\ tasks' = [tasks EXCEPT ![TaskIndex(doc.name)] = saved]
                /\ edits' = [edits EXCEPT ![p].pc = "done", ![p].ok = TRUE,
                                          ![p].value = get_compact_task(saved, NoFaults)]
        /\ UNCHANGED <<assignVars, notifVars, hostVars, ret>>

\* The response of worker p's edit_task call is delivered.
edit_task_return(p) ==
    /\ edits[p].pc = "done"
    /\ edits' = [edits EXCEPT ![p] = [pc |-> "idle"]]
    /\ UNCHANGED <<assignVars, notifVars, hostVars, tasks, ret>>

\* frappe.delete_doc("CRM Task", name): ignore_missing is left at its
\* default True, so a name no task has is passed over without an error.
DeleteDoc(name) == SelectSeq(tasks, LAMBDA t : t.name # name)

\* delete_task(task_id); task_id 0 is an omitted one.
delete_task(task_id) ==
    /\ ret = Idle
    /\ tasks' = IF task_id = 0 THEN tasks ELSE DeleteDoc(task_id)
    /\ ret' = [op |-> "delete_task", task_id |-> task_id,
               ok |-> task_id # 0,
               exc |-> IF task_id = 0 THEN "ValidationError" ELSE None]
    /\ UNCHANGED <<assignVars, notifVars, hostVars, edits>>

\* p.strip() of an entry of importance.split(",") or status.split(",").
StripItem(x) == CASE x = " High" -> "High" [] x = " " -> "" [] OTHER -> x

\* [p.strip() for p in csv.split(",") if p.strip()], csv given as its
\* entries; an omitted or empty csv is <<>>.
CsvValues(csv) == {StripItem(csv[i]) : i \in 1..Len(csv)} \ {""}

\* The filters of lines 759-773 applied to a task.
Matches(task, importance, status) ==
    /\ CsvValues(importance) # {} => task.priority \in CsvValues(importance)
    /\ CsvValues(status) # {} => task.status \in CsvValues(status)

\* Mutant: a page that ends with the last task still announces a next one.
HasNextOffByOne(start, returned, total) == start + returned <= total

\* has_next = (start + len(data)) < total
HasNext(start, returned, total) == start + returned < total

TaskName(task) == task.name

\* filter_tasks(importance, status, limit, page), order_by "modified desc":
\* the latest task first.  A negative limit makes the store's query fail.
filter_tasks(importance, status, limit_arg, page_arg) ==
    LET limit == IF limit_arg = 0 THEN DefaultLimit ELSE limit_arg
        page0 == IF page_arg = 0 THEN DefaultPage ELSE page_arg
        page == IF page0 < 1 THEN 1 ELSE page0
        start == (page - 1) * limit
        matching == SelectSeq(SortDescBy(tasks, TaskName),
                              LAMBDA t : Matches(t, importance, status))
        total == Len(matching)
        found == SubSeq(matching, start + 1, Min(start + limit, total))
        data == [i \in 1..Len(found) |-> get_compact_task(found[i], NoFaults)]
    IN  /\ ret = Idle
        /\ ret' = IF limit < 0
                  THEN [op |-> "filter_tasks", importance |-> importance,
                        status |-> status, limit |-> limit_arg, page_arg |-> page_arg,
                        ok |-> FALSE, exc |-> "SQLError", data |-> <<>>,
                        page |-> page, page_size |-> limit, total |-> 0,
                        has_next |-> FALSE]
                  ELSE [op |-> "filter_tasks", importance |-> importance,
                        status |-> status, limit |-> limit_arg, page_arg |-> page_arg,
                        ok |-> TRUE, exc |-> None, data |-> data,
                        page |-> page, page_size |-> limit, total |-> total,
                        has_next |-> HasNext(start, Len(data), total)]
        /\ UNCHANGED <<assignVars, notifVars, apiVars>>

\* Mutant: the late bucket takes tasks of every status.
IsActiveAlways(status) == TRUE

\* "status": ["in", active_statuses]
IsActive(status) == status \in {"Backlog", "Todo", "In Progress"}

\* ORDER BY priority desc: the priorities as the store compares them, as
\* strings.
PriorityRank(priority) == IF priority = "Medium" THEN 2 ELSE 1

\* order_by "priority desc, modified desc", as one key, largest first.
TodayKey(task) == PriorityRank(task.priority) * 10 + task.modified

\* order_by "start_date asc, priority desc", as one key, largest first.
DateKey(task) == PriorityRank(task.priority) - task.start_date * 10

DefaultMinEach == 5         \* cint(min_each) or 5

\* main_page_buckets(min_each); min_each 0 is an omitted or empty one.  A
\* negative page length makes the store's queries fail.
main_page_buckets(min_each) ==
    LET min_count == IF min_each = 0 THEN DefaultMinEach ELSE min_each
        today_tasks ==
            SliceTo(SortDescBy(SelectSeq(tasks, LAMBDA t : t.start_date = Today),
                               TodayKey), min_count)
        late_tasks ==
            SliceTo(SortDescBy(SelectSeq(tasks, LAMBDA t : /\ t.start_date < Today
                                                          /\ IsActive(t.status)),
                               DateKey), min_count)
        upcoming_tasks ==
            SliceTo(SortDescBy(SelectSeq(tasks, LAMBDA t : t.start_date > Today),
                               DateKey), min_count)
        Compact(found) == [i \in 1..Len(found) |-> get_compact_task(found[i], NoFaults)]
    IN  /\ ret = Idle
        /\ ret' = IF min_count < 0
                  THEN [op |-> "main_page_buckets", min_each_arg |-> min_each,
                        ok |-> FALSE, exc |-> "SQLError", today |-> <<>>,
                        late |-> <<>>, upcoming |-> <<>>, min_each |-> min_count]
                  ELSE [op |-> "main_page_buckets", min_each_arg |-> min_each,
                        ok |-> TRUE, exc |-> None, today |-> Compact(today_tasks),
                        late |-> Compact(late_tasks),
                        upcoming |-> Compact(upcoming_tasks), min_each |-> min_count]
        /\ UNCHANGED <<assignVars, notifVars, apiVars>>

(***************************************************************************)
(* Specification of the task API                                           *)
(***************************************************************************)
HostOff ==
    /\ site = <<>>
    /\ site_config = [readable |-> FALSE]
    /\ oauth = [site_ok |-> FALSE, doctype |-> FALSE, provider |-> FALSE,
                client_id |-> "", scope |-> "", redirect_uri |-> "",
                clients |-> 0]

InitTasks ==
    /\ AssignOff
    /\ NotifOff
    /\ HostOff
    /\ tasks = <<>>
    /\ edits = NoEdits
    /\ ret = Idle

NextTasks ==
    \/ \E task_type \in {None, "Call"}, status \in Statuses \cup {None, ""},
          priority \in Priorities \cup {None, ""} :
          create_task(task_type, status, priority, None, NoFaults)
    \/ \E task_id \in {0, 1, MaxTasks + 1}, status \in Statuses \cup {None} :
          update_status(task_id, status, NoFaults)
    \/ \E importance \in {<<>>, <<" High">>, <<"High", "Medium">>, <<" ">>},
          status \in {<<>>, <<"Todo">>},
          limit \in -1..MaxPageSize, page \in -1..MaxPage :
          filter_tasks(importance, status, limit, page)
    \/ Return

SpecTasks == InitTasks /\ [][NextTasks]_vars

(***************************************************************************)
(* Specification of the buckets of the main page                           *)
(***************************************************************************)
MaxBucketTasks == 3         \* most tasks the buckets are drawn from
MaxMinEach == 2             \* largest min_each asked for

\* The stores of n tasks that started yesterday, today or tomorrow.
TaskTables(n) ==
    {t \in [1..n -> [name : 1..n, task_type : {"Call"}, status : Statuses,
                     priority : Priorities, start_date : {Today - 1, Today, Today + 1},
                     modified : {0}, assigned_to : {None}]] :
        \A i \in 1..n : t[i].name = i}

InitBuckets ==
    /\ AssignOff
    /\ NotifOff
    /\ HostOff
    /\ \E n \in 0..MaxBucketTasks : tasks \in TaskTables(n)
    /\ edits = NoEdits
    /\ ret = Idle

NextBuckets ==
    \/ \E min_each \in -1..MaxMinEach : main_page_buckets(min_each)
    \/ Return

SpecBuckets == InitBuckets /\ [][NextBuckets]_vars

(***************************************************************************)
(* Specification of creating, changing and deleting tasks                  *)
(***************************************************************************)
NextCrud ==
    \/ \E task_type \in {None, "Call"}, status \in {None, "Done"},
          priority \in {None, "High"} :
          create_task(task_type, status, priority, None, NoFaults)
    \/ \E task_id \in 0..(MaxTasks + 1), status \in {None, "Done"} :
          update_status(task_id, status, NoFaults)
    \/ \E task_id \in 0..(MaxTasks + 1), status \in {None, "Done"},
          priority \in {None, "High"} :
          edit_task(task_id, status, priority, NoFaults)
    \/ \E task_id \in 0..(MaxTasks + 1) : delete_task(task_id)
    \/ Return

SpecCrud == InitTasks /\ [][NextCrud]_vars

(***************************************************************************)
(* Specification of edit_task calls served at the same time                *)
(***************************************************************************)
InitEdits ==
    /\ AssignOff
    /\ NotifOff
    /\ HostOff
    /\ tasks = <<[name |-> 1, task_type |-> "Call", status |-> "Todo",
                  priority |-> "Medium", start_date |-> Today, modified |-> 0,
                  assigned_to |-> None]>>
    /\ edits = NoEdits
    /\ ret = Idle

NextEdits ==
    \/ \E p \in Procs, task_id \in {0, 1, 2}, status \in {None, "Done"},
          priority \in {None, "High"} :
          edit_task_load(p, task_id, status, priority)
    \/ \E p \in Procs : edit_task_save(p)
    \/ \E p \in Procs : edit_task_return(p)

SpecEdits == InitEdits /\ [][NextEdits]_vars

(***************************************************************************)
(* Specification of the assignee resolution of a task                      *)
(***************************************************************************)
\* The ToDo rows that assign task 1.
TaskToDos ==
    {[reference_type |-> "CRM Task", reference_name |-> 1,
      allocated_to |-> "u2", status |-> "Open"],
     [reference_type |-> "CRM Task", reference_name |-> 1,
      allocated_to |-> "u3", status |-> "Open"],
     [reference_type |-> "CRM Task", reference_name |-> 1,
      allocated_to |-> Ghost, status |-> "Open"],
     [reference_type |-> "CRM Task", reference_name |-> 1,
      allocated_to |-> "u2", status |-> "Closed"]}

InitCompact ==
    /\ roles = [u \in Users |-> {}]
    /\ teams = [t \in TeamNames |-> [team_leader |-> "u1", members |-> {}]]
    /\ enabled = Users
    /\ todos \in SUBSET TaskToDos
    /\ NotifOff
    /\ HostOff
    /\ edits = NoEdits
    /\ \E assigned_to \in {None, "u2", Ghost} :
          tasks = <<[name |-> 1, task_type |-> "Call", status |-> "Todo",
                     priority |-> "Medium", start_date |-> Today, modified |-> 0,
                     assigned_to |-> assigned_to]>>
    /\ ret = Idle

NextCompact ==
    \/ \E task_id \in {1, 2}, status \in Statuses, faults \in Faults :
          update_status(task_id, status, faults)
    \/ Return

SpecCompact == InitCompact /\ [][NextCompact]_vars

(***************************************************************************)
(* Properties of the assignment authorizer and lead visibility             *)
(***************************************************************************)
\* The non-empty entries of a users list, in order.
Listed(users) == SelectSeq(users, LAMBDA u : u # NoUser /\ u # None)

\* The users holding an open ToDo on the Lead.
OpenAssignees(name) ==
    {u \in Users : [reference_type |-> "CRM Lead", reference_name |-> name,
                    allocated_to |-> u, status |-> "Open"] \in todos}

\* The members of every Team the user leads.
LedMembers(user) ==
    {m \in Users : \E t \in TeamNames : teams[t].team_leader = user /\ m \in teams[t].members}

ManagerCall ==
    /\ ret.op = "assign_lead"
    /\ "Sales Manager" \in roles[ret.actor]
    /\ "System Manager" \notin roles[ret.actor]
    /\ ret.actor # Administrator

\* C1 as stated: a Sales Manager's assign_lead raises a permission error and
\* creates nothing when some listed user is outside _team_members_of(actor),
\* and otherwise succeeds with one assignment per listed user.
C1_AsStated ==
    ManagerCall =>
        IF \E i \in 1..Len(ret.users) : ret.users[i] \notin _team_members_of(ret.actor)
        THEN ~ret.ok /\ ret.exc = "PermissionError" /\ ret.added = <<>> /\ ret.created = {}
        ELSE ret.ok /\ ret.added = ret.users

\* C1 amended: for a Sales Manager who may read the target document, with the
\* empty entries of the users list dropped: if a remaining user is outside
\* _team_members_of(actor) the call raises a permission error, calls
\* add_assignment for nobody and creates no ToDo; otherwise it succeeds and
\* calls add_assignment exactly once per remaining entry, in order, after
\* which each of them holds an open ToDo on the document.
C1_ManagerAssignsWithinRoster ==
    (ManagerCall /\ ret.has_read) =>
        LET listed == Listed(ret.users)
            roster == _team_members_of(ret.actor)
        IN  IF \E i \in 1..Len(listed) : listed[i] \notin roster
            THEN /\ ~ret.ok
                 /\ ret.exc = "PermissionError"
                 /\ ret.added = <<>>
                 /\ ret.created = {}
            ELSE /\ ret.ok
                 /\ ret.added = listed
                 /\ \A i \in 1..Len(listed) : listed[i] \in OpenAssignees(ret.name)
                 /\ ret.created \subseteq {OpenToDo(ret.name, listed[i]) : i \in 1..Len(listed)}

\* C1 witness: a manager's call listing a roster member and an outsider is
\* rejected.
C1_Witness ==
    /\ ManagerCall
    /\ ret.has_read
    /\ \E i, j \in 1..Len(ret.users) :
          /\ ret.users[i] \in _team_members_of(ret.actor)
          /\ ret.users[j] \in Assignees \ _team_members_of(ret.actor)
    /\ ~ret.ok
    /\ ret.created = {}

\* C6 as stated: a System Manager's list query carries no filter; a Sales
\* User with no open assignment on a Lead neither lists it nor passes
\* has_permission on it.
C6_AsStated ==
    /\ (ret.op = "get_list" /\ "System Manager" \in get_roles(ret.user))
          => ret.cond.sql = None
    /\ (/\ ret.op = "get_list"
        /\ "Sales User" \in get_roles(ret.user)
        /\ "System Manager" \notin get_roles(ret.user))
          => \A l \in Leads : ret.user \notin OpenAssignees(l) => l \notin ret.rows
    /\ (/\ ret.op = "has_permission"
        /\ "Sales User" \in get_roles(ret.user)
        /\ "System Manager" \notin get_roles(ret.user)
        /\ ret.user \notin OpenAssignees(ret.name))
          => ret.value = FALSE

\* C6 amended: a System Manager's list query carries no filter; a Sales User
\* (not System Manager) who holds no open assignment on a Lead and leads no
\* Team with a member holding an open assignment on it neither lists the
\* Lead nor passes has_permission on it.
C6_VisibilityByRole ==
    /\ (ret.op = "get_list" /\ "System Manager" \in get_roles(ret.user))
          => ret.cond.sql = None /\ ret.rows = Leads
    /\ (/\ ret.op = "get_list"
        /\ "Sales User" \in get_roles(ret.user)
        /\ "System Manager" \notin get_roles(ret.user))
          => \A l \in Leads :
                (/\ ret.user \notin OpenAssignees(l)
                 /\ LedMembers(ret.user) \cap OpenAssignees(l) = {})
                    => l \notin ret.rows
    /\ (/\ ret.op = "has_permission"
        /\ "Sales User" \in get_roles(ret.user)
        /\ "System Manager" \notin get_roles(ret.user)
        /\ ret.user \notin OpenAssignees(ret.name)
        /\ LedMembers(ret.user) \cap OpenAssignees(ret.name) = {})
          => ret.value = FALSE

\* C6 witness: a Sales User lists Leads while a Lead is openly assigned to
\* somebody else, and does not get it.
C6_Witness ==
    /\ ret.op = "get_list"
    /\ "Sales User" \in get_roles(ret.user)
    /\ "System Manager" \notin get_roles(ret.user)
    /\ \E l \in Leads :
          /\ OpenAssignees(l) # {}
          /\ ret.user \notin OpenAssignees(l)
          /\ l \notin ret.rows

\* C10: assign_lead raises a permission error and creates no assignment when
\* the caller may not read the target document (privileged or not), or is
\* neither Administrator / System Manager nor Sales Manager, whatever the
\* users list.
C10_DeniedCallsCreateNothing ==
    (/\ ret.op = "assign_lead"
     /\ \/ ~ret.has_read
        \/ /\ ret.actor # Administrator
           /\ roles[ret.actor] \cap {"System Manager", "Sales Manager"} = {})
        => /\ ~ret.ok
           /\ ret.exc = "PermissionError"
           /\ ret.added = <<>>
           /\ ret.created = {}

\* C10 witness: the Administrator, refused read permission, asks to assign
\* to a user and is rejected.
C10_Witness ==
    /\ ret.op = "assign_lead"
    /\ ret.actor = Administrator
    /\ ~ret.has_read
    /\ Listed(ret.users) # <<>>
    /\ ~ret.ok
    /\ ret.created = {}

(***************************************************************************)
(* Properties of the unseen count and mark-seen                            *)
(***************************************************************************)
\* Whether a Notification Log row is unseen: its seen column, or its read
\* column when there is no seen column, is 0; unseen when there is neither.
LogUnseen(row) ==
    IF "seen" \in ncols THEN row["seen"] = FALSE
    ELSE IF "read" \in ncols THEN row["read"] = FALSE
    ELSE TRUE

\* Whether a Notification Log row is one of the user's rows.
LogOf(row, user) ==
    user \in {row["for_user"], row["owner"]}
        \cup (IF "from_user" \in ncols THEN {row["from_user"]} ELSE {})

\* The user's Notification Log rows (as indices of nlog).
LogRowsOf(user) == {i \in 1..Len(nlog) : LogOf(nlog[i], user)}

\* Those among the user's UnseenPageLength most recently created rows.
RecentLogRowsOf(user) ==
    {i \in LogRowsOf(user) :
        Cardinality({j \in LogRowsOf(user) : nlog[j]["creation"] > nlog[i]["creation"]})
            < UnseenPageLength}

\* The user's unread CRM Notification rows.
LegacyUnreadOf(user) ==
    {i \in 1..Len(crmn) : crmn[i].to_user = user /\ ~crmn[i].read}

CountCall == ret.op \in {"get_unseen_count", "get_unread_count"}

\* C3 as stated: get_unseen_count and get_unread_count return N + M for a
\* user with N unseen Notification Log rows and M unread CRM Notification
\* rows.
C3_AsStated ==
    CountCall =>
        ret.value = Cardinality({i \in LogRowsOf(ret.user) : LogUnseen(nlog[i])})
                    + Cardinality(LegacyUnreadOf(ret.user))

\* C3 amended: they return N + M where N counts the unseen rows among the
\* Notification Log rows the count query fetches, the user's most recently
\* created ones up to its page length (500); so N is the number of all the
\* user's unseen log rows when the user has at most that many log rows.
C3_UnseenCountIsSum ==
    CountCall =>
        /\ ret.value = Cardinality({i \in RecentLogRowsOf(ret.user) : LogUnseen(nlog[i])})
                       + Cardinality(LegacyUnreadOf(ret.user))
        /\ Cardinality(LogRowsOf(ret.user)) <= UnseenPageLength
              => ret.value = Cardinality({i \in LogRowsOf(ret.user) : LogUnseen(nlog[i])})
                             + Cardinality(LegacyUnreadOf(ret.user))

\* C3 witness: a count over an unseen log row and an unread legacy row.
C3_Witness ==
    /\ CountCall
    /\ \E i \in RecentLogRowsOf(ret.user) : LogUnseen(nlog[i])
    /\ LegacyUnreadOf(ret.user) # {}
    /\ ret.value >= 2

\* Whether the notification `name` of `source` is counted in the user's
\* unseen count.
CountedUnseen(user, name, source) ==
    \/ /\ source = "Notification Log"
       /\ ncols \cap {"seen", "read"} # {}
       /\ \E i \in RecentLogRowsOf(user) : nlog[i].name = name /\ LogUnseen(nlog[i])
    \/ /\ source = "CRM Notification"
       /\ \E i \in LegacyUnreadOf(user) : crmn[i].name = name

\* Whether `user` owns the notification `name` of `source`.
OwnsNotification(user, name, source) ==
    \/ /\ source = "Notification Log"
       /\ \E i \in LogRowsOf(user) : nlog[i].name = name
    \/ /\ source = "CRM Notification"
       /\ \E i \in 1..Len(crmn) : crmn[i].name = name /\ crmn[i].to_user = user

\* C2 as stated: after a successful mark_portal_seen(name, source) the
\* unseen count of the notification's owner is one less than before it.
C2_AsStated ==
    [][(ret'.op = "mark_portal_seen" /\ ret'.ok)
          => \A u \in NUsers :
                OwnsNotification(u, ret'.name, ret'.source)
                    => UnseenCountIn(nlog', crmn', u) = _get_unseen_count_for(u) - 1]_vars

\* C2 amended: after a successful mark_portal_seen(name, source) the unseen
\* count of every user is one less than before it if the notification was
\* counted as unseen for that user before the call (a CRM Notification row
\* addressed to the user and unread; a Notification Log row of the user that
\* is unseen, in a table that has a seen or read column, and among the rows
\* the count query fetches), and is the same as before it otherwise.
C2_MarkSeenDecrementsOnce ==
    [][(ret'.op = "mark_portal_seen" /\ ret'.ok)
          => \A u \in NUsers :
                UnseenCountIn(nlog', crmn', u) =
                    _get_unseen_count_for(u)
                        - (IF CountedUnseen(u, ret'.name, ret'.source) THEN 1 ELSE 0)]_vars

\* C2 witness: a mark-seen call has flagged one row of a user who still has
\* another unseen notification.
C2_Witness ==
    /\ ret.op = "mark_portal_seen"
    /\ ret.ok
    /\ ret.updated = 1
    /\ OwnsNotification(ret.user, ret.name, ret.source)
    /\ _get_unseen_count_for(ret.user) = 1

\* The rows of `table` called `name` whose flag `col` is set.
FlaggedRows(table, name, col) ==
    {i \in 1..Len(table) : table[i].name = name /\ col # None /\ table[i][col] = TRUE}

ToBeRead ==
    {i \in 1..Len(crmn) :
        /\ crmn[i].to_user = ret'.user
        /\ ~crmn[i].read
        /\ ret'.doc \in Docs => ret'.doc \in {crmn[i].comment, crmn[i].notification_type_doc}}

\* C16: mark_as_read(user, doc) sets read on every unread CRM Notification
\* row addressed to the user (the session user when none is given) whose
\* comment or notification_type_doc is the document, on all the user's
\* unread rows when no document is given, and changes nothing else; after
\* a call without a document the user has no unread legacy row.
C16_MarkAsReadMatching ==
    [][(ret'.op = "mark_as_read" /\ ret'.ok)
          => /\ ret'.user = IF ret'.user_arg \in NUsers THEN ret'.user_arg
                            ELSE ret'.session_user
             /\ Len(crmn') = Len(crmn)
             /\ nlog' = nlog
             /\ \A i \in 1..Len(crmn) :
                   /\ i \in ToBeRead => crmn'[i] = [crmn[i] EXCEPT !.read = TRUE]
                   /\ i \notin ToBeRead => crmn'[i] = crmn[i]
             /\ ret'.updated = Cardinality(ToBeRead)
             /\ ret'.doc \notin Docs
                   => /\ \A i \in 1..Len(crmn) :
                            crmn'[i].to_user = ret'.user => crmn'[i].read
                      /\ UnseenCountIn(nlog', crmn', ret'.user) = 0]_vars

\* C16 witness: a call about a document has read one row of the user and
\* left an unread row of the same user that is about nothing.
C16_Witness ==
    /\ ret.op = "mark_as_read"
    /\ ret.ok
    /\ ret.doc = "D1"
    /\ ret.updated = 1
    /\ \E i \in 1..Len(crmn) :
          /\ crmn[i].to_user = ret.user
          /\ ~crmn[i].read
          /\ crmn[i].comment = None /\ crmn[i].notification_type_doc = None

(***************************************************************************)
(* Properties of the merged feed                                           *)
(***************************************************************************)
\* The creation time a returned entry is ordered by: its own, or now when it
\* has none.
OrderTime(x) == IF x.creation = NoTime THEN Now ELSE x.creation

Ordered(list) ==
    \A i \in 1..Len(list) : \A j \in 1..Len(list) :
        i < j => OrderTime(list[i]) >= OrderTime(list[j])

ListCall == ret.op = "list_portal_notifications" /\ ret.ok

\* C8 as stated: the list returned by list_portal_notifications is ordered
\* non-increasing by creation time (no creation time counting as now) and
\* has at most `limit` entries.
C8_AsStated == ListCall => Ordered(ret.value) /\ Len(ret.value) <= ret.limit

\* The part of C8 that holds for every limit: the returned list is ordered
\* non-increasing by creation time, holds only the user's entries, and has
\* at most `limit` entries when limit >= 0.
C8_FeedOrderedAndCut ==
    ListCall =>
        /\ Ordered(ret.value)
        /\ ret.limit >= 0 => Len(ret.value) <= ret.limit
        /\ \A i \in 1..Len(ret.value) :
              /\ ret.value[i].to_user = ret.user
              /\ ret.value[i].source = "CRM Notification" => ret.include_legacy

\* A returned list that mixes both sources and holds an entry without
\* creation time.
C8_MixedFeed ==
    /\ ListCall
    /\ \E i, j, k \in 1..Len(ret.value) :
          /\ ret.value[i].source = "Notification Log"
          /\ ret.value[j].source = "CRM Notification"
          /\ ret.value[k].creation = NoTime
          /\ ret.value[i].creation > ret.value[j].creation
          /\ ret.value[j].creation # NoTime
    /\ Len(ret.value) = ret.limit

\* The reference document type of the row a returned entry was made from.
ReferenceType(x) ==
    IF x.source = "Notification Log"
    THEN nlog[CHOOSE i \in 1..Len(nlog) : nlog[i]["name"] = x.name]["document_type"]
    ELSE crmn[CHOOSE i \in 1..Len(crmn) : crmn[i].name = x.name].reference_doctype

\* C21 as stated: in every entry list_portal_notifications returns,
\* reference_doctype and route_name are "lead" and "Lead" for a CRM Lead
\* reference, "deal" and "Deal" for a CRM Deal reference, and both null for
\* any other or missing reference document type.
C21_AsStated ==
    ListCall =>
        \A i \in 1..Len(ret.value) :
            LET dt == ReferenceType(ret.value[i])
            IN  /\ ret.value[i].reference_doctype =
                      (IF dt = "CRM Lead" THEN "lead"
                       ELSE IF dt = "CRM Deal" THEN "deal" ELSE None)
                /\ ret.value[i].route_name =
                      (IF dt = "CRM Lead" THEN "Lead"
                       ELSE IF dt = "CRM Deal" THEN "Deal" ELSE None)

(***************************************************************************)
(* Properties of the OAuth configuration endpoint                          *)
(***************************************************************************)
OAuthCall == ret.op = "get_oauth_config"

\* The host the request names, case and port apart.
RequestHost == NormalizeHost(HeaderHost(ret.request))

\* The domains the site configuration lists: its domains and its host_name.
ExplicitDomains ==
    IF site_config.readable
    THEN (IF site_config.domains.kind = "list"
          THEN {Strip(Lower(site_config.domains.val[i])) :
                    i \in 1..Len(site_config.domains.val)}
          ELSE IF site_config.domains.kind = "str"
          THEN {Strip(Lower(w)) : w \in Range(SplitWords(site_config.domains.val))}
          ELSE {})
         \cup (IF site_config.host_name # NoStr
               THEN {Strip(Lower(site_config.host_name))} ELSE {})
    ELSE {}

\* C4 as stated, "exactly matches" read up to the case and port of the host:
\* get_oauth_config returns a client_id only when the request host matches a
\* domain configured for the site; for every other request host it raises
\* and returns no client_id.
C4_AsStated ==
    OAuthCall /\ RequestHost \notin ExplicitDomains
        => ~ret.ok /\ ret.value.client_id = ""

\* C5 as stated: _validate_host accepts only with a request, a host header,
\* a site name and a readable site configuration, and accepts 'localhost',
\* '127.0.0.1' or the site name as host only when the configured
\* domains/host_name list it.
C5_AsStated ==
    OAuthCall /\ ret.validated = "ok"
        => /\ ret.request.present
           /\ HeaderHost(ret.request) # NoStr
           /\ site # NoStr
           /\ site_config.readable
           /\ RequestHost \in {s_localhost, s_loopback, Strip(Lower(site))}
                 => RequestHost \in ExplicitDomains

(***************************************************************************)
(* Properties of the task API                                              *)
(***************************************************************************)
FilterCall == ret.op = "filter_tasks" /\ ret.ok

\* The tasks the filters of the call select.
MatchingTasks ==
    {i \in 1..Len(tasks) :
        /\ CsvValues(ret.importance) # {} => tasks[i].priority \in CsvValues(ret.importance)
        /\ CsvValues(ret.status) # {} => tasks[i].status \in CsvValues(ret.status)}

\* C7 as stated: for every page number, every limit L and every number T of
\* matching tasks, filter_tasks returns has_next = true iff page * L < T.
C7_AsStated ==
    FilterCall =>
        (ret.has_next <=> ret.page_arg * ret.limit < Cardinality(MatchingTasks))

\* C7 amended: with T the number of matching tasks, filter_tasks returns
\* has_next = true iff page * page_size < T for the page and page_size it
\* returns, which are the page asked for, or 1 when that is below 1, and the
\* limit asked for, or 20 when that is 0; so has_next iff page * L < T for
\* every page >= 1 and limit L >= 1.
C7_HasNextOfReturnedPage ==
    FilterCall =>
        /\ ret.total = Cardinality(MatchingTasks)
        /\ ret.page = (IF ret.page_arg < 1 THEN 1 ELSE ret.page_arg)
        /\ ret.page_size = (IF ret.limit = 0 THEN 20 ELSE ret.limit)
        /\ ret.has_next <=> ret.page * ret.page_size < ret.total
        /\ (ret.page_arg >= 1 /\ ret.limit >= 1)
              => (ret.has_next <=> ret.page_arg * ret.limit < Cardinality(MatchingTasks))

\* C7 witness: a full second page that has a next one.
C7_Witness ==
    /\ FilterCall
    /\ ret.has_next
    /\ ret.page_arg = 2
    /\ Len(ret.data) = ret.limit
    /\ Len(tasks) = MaxTasks

CreateCall == ret.op = "create_task" /\ ret.ok

\* C9 as stated: for every create_task call with a task_type, an omitted
\* status is returned as "Todo" and an omitted priority as "Medium", and a
\* supplied status or priority is returned unchanged.
C9_AsStated ==
    CreateCall =>
        /\ ret.value.status = (IF ret.status = None THEN "Todo" ELSE ret.status)
        /\ ret.value.priority = (IF ret.priority = None THEN "Medium" ELSE ret.priority)

\* C9 amended: for every create_task call with a task_type, a status that is
\* omitted or empty is returned as "Todo" and a priority that is omitted or
\* empty as "Medium", and a non-empty status or priority is returned
\* unchanged; the task stored carries the same values.
C9_CreateTaskDefaults ==
    CreateCall =>
        /\ ret.value.status = (IF ret.status \in {None, ""} THEN "Todo" ELSE ret.status)
        /\ ret.value.priority =
              (IF ret.priority \in {None, ""} THEN "Medium" ELSE ret.priority)
        /\ tasks[Len(tasks)].status = ret.value.status
        /\ tasks[Len(tasks)].priority = ret.value.priority
        /\ tasks[Len(tasks)].name = ret.value.name

\* C9 witness: a task created with the status omitted and a priority given.
C9_Witness ==
    /\ CreateCall
    /\ ret.status = None
    /\ ret.priority = "High"
    /\ ret.value.status = "Todo"
    /\ ret.value.priority = "High"

(***************************************************************************)
(* Properties of the assignable users and the ToDo guard                   *)
(***************************************************************************)
AssignableCall == ret.op = "get_assignable_users"

\* The roster of the caller's own Team: the members of the Team the store
\* finds for the leader, empty entries apart.
OwnRoster(user) ==
    {m \in Users :
        \E i \in 1..Len(TeamOrder) :
            /\ teams[TeamOrder[i]].team_leader = user
            /\ \A j \in 1..(i - 1) : teams[TeamOrder[j]].team_leader # user
            /\ m \in teams[TeamOrder[i]].members}

\* C11: get_assignable_users returns all enabled users for an
\* Administrator/System Manager caller, exactly the enabled users of the
\* caller's own team roster for a Sales Manager caller (the empty list for
\* an empty roster, with no error), the empty list for every other caller,
\* and never a disabled user.
C11_AssignableUsersByRole ==
    AssignableCall =>
        /\ ret.ok
        /\ ret.value \subseteq enabled
        /\ ret.value =
              (IF ret.me = Administrator \/ "System Manager" \in roles[ret.me]
               THEN {u \in Users : u \in enabled}
               ELSE IF "Sales Manager" \in roles[ret.me]
               THEN {u \in OwnRoster(ret.me) : u \in enabled}
               ELSE {})

\* C11 witness: a Sales Manager whose roster holds an enabled and a disabled
\* user gets the enabled one only.
C11_Witness ==
    /\ AssignableCall
    /\ "Sales Manager" \in roles[ret.me]
    /\ "System Manager" \notin roles[ret.me]
    /\ ret.value # {}
    /\ OwnRoster(ret.me) \ enabled # {}

\* The guard has run on an assignment linked to a Lead whose owner field
\* names the target user (the field the guard reads the target from).
GuardCall ==
    /\ ret.op = "insert_todo"
    /\ ret.doc.reference_type = "CRM Lead"
    /\ ret.doc.owner = ret.doc.allocated_to

\* Whether assign_lead accepts `actor` assigning the Lead to `target`, the
\* actor being allowed to read the Lead.
AssignLeadAccepts(actor, target) ==
    \/ actor = Administrator
    \/ "System Manager" \in roles[actor]
    \/ "Sales Manager" \in roles[actor] /\ target \in OwnRoster(actor)

\* C12 as stated: the guard accepts the creation of a document-linked
\* assignment for a target user exactly when assign_lead would accept the
\* same actor assigning to that target.
C12_AsStated ==
    GuardCall =>
        (ret.ok <=> AssignLeadAccepts(ret.session_user, ret.doc.allocated_to))

(***************************************************************************)
(* Properties of the installation hook and the OAuth settings              *)
(***************************************************************************)
InstallCall == ret.op = "after_install"

\* C13: after_install completes without raising whether run_bootstrap
\* returns ok, returns a not-ok result or raises an exception, and a
\* bootstrap failure is logged.
C13_InstallNeverFails ==
    InstallCall =>
        /\ ret.ok
        /\ ret.exc = None
        /\ ret.outcome.kind # "ok" => Len(ret.calls) >= 2
        /\ ret.outcome.kind \in {"raises", "no result"}
              => \E i \in 1..Len(ret.calls) : ret.calls[i] = "log_error: failed"

\* C13 witness: run_bootstrap raised, after_install returned and the failure
\* was logged.
C13_Witness ==
    /\ InstallCall
    /\ ret.outcome.kind = "raises"
    /\ ret.outcome.exc = "OperationalError"
    /\ ret.ok
    /\ ret.calls = <<"log: running", "log_error: failed", "log: failed">>

UpdateCall == ret.op = "update_status"

\* The users with an open ToDo on the task of the call.
OpenTaskAssignees ==
    {u \in Users : [reference_type |-> "CRM Task", reference_name |-> ret.task_id,
                    allocated_to |-> u, status |-> "Open"] \in todos}

\* The single-assignee field of the task of the call.
AssigneeField == tasks[TaskIndex(ret.task_id)].assigned_to

\* C14: no error raised while the assignees are resolved fails the call:
\* update_status succeeds exactly when the task exists and a status is
\* given, whatever reads fail, and its projection carries an assigned_to
\* list of users: without errors the users with an open ToDo, else the
\* user of the assigned_to field, else none; with errors a part of these,
\* and none when the ToDo table cannot be read.
C14_CompactNeverFails ==
    UpdateCall =>
        /\ ret.ok <=> (ret.task_id \in TaskNames /\ ~Falsy(ret.status))
        /\ ret.ok =>
              /\ ret.value.name = ret.task_id
              /\ ret.value.status = ret.status
              /\ ret.value.assigned_to \subseteq Users
              /\ ret.value.assigned_to \subseteq OpenTaskAssignees \cup {AssigneeField}
              /\ ret.faults.todo_read => ret.value.assigned_to = {}
              /\ ret.faults = NoFaults =>
                    ret.value.assigned_to =
                        IF OpenTaskAssignees # {} THEN OpenTaskAssignees
                        ELSE IF AssigneeField \in Users THEN {AssigneeField}
                        ELSE {}

\* The task document cannot be loaded, no ToDo is open on the task, its
\* field names a user: the call returns with an empty assigned_to.
C14_Witness ==
    /\ UpdateCall /\ ret.ok
    /\ ret.faults.task_read /\ ~ret.faults.todo_read
    /\ AssigneeField = "u2"
    /\ OpenTaskAssignees = {}
    /\ ret.value.assigned_to = {}

(***************************************************************************)
(* Properties of the list predicate against the document check             *)
(***************************************************************************)
\* C22 as stated: a Lead that satisfies get_permission_query_conditions(user)
\* passes has_permission for the same user, and for a missing user or Guest
\* the predicate is "1=0" and has_permission is False.
C22_AsStated ==
    ret.op = "has_permission" =>
        /\ Satisfies(get_permission_query_conditions(ret.user), ret.name) => ret.value
        /\ (Falsy(ret.user) \/ ret.user = Guest)
              => /\ get_permission_query_conditions(ret.user).sql = "1=0"
                 /\ ~ret.value

\* A Sales Manager who is neither Administrator nor System Manager.
PlainManager(user) ==
    /\ user \in Users
    /\ user # Administrator
    /\ "Sales Manager" \in roles[user]
    /\ "System Manager" \notin roles[user]

\* After a Sales Manager's successful assign_lead, the Lead is visible, in
\* the list and as a document, to every user assigned and to the manager.
AssignedIsVisible ==
    (ret.op = "assign_lead" /\ ret.ok /\ PlainManager(ret.actor))
        => \A u \in Range(ret.added) \cup {ret.actor} :
              Range(ret.added) # {}
                  => /\ Satisfies(get_permission_query_conditions(u), ret.name)
                     /\ has_permission(ret.name, u)

\* Every member whose open assignment shows a Lead in a Sales Manager's
\* list is in the roster the manager may assign to.
VisibleIsAssignable ==
    (ret.op = "get_list" /\ PlainManager(ret.user))
        => \A name \in ret.rows : \A t \in TeamNames : \A m \in teams[t].members :
              (/\ teams[t].team_leader = ret.user
               /\ ~Falsy(m)
               /\ OpenToDo(name, m) \in todos)
                  => m \in OwnRoster(ret.user)

\* C24 as stated: assignment and visibility agree on the team roster, in
\* both directions, also for a leader of more than one Team.
C24_AsStated == AssignedIsVisible /\ VisibleIsAssignable

(***************************************************************************)
(* Properties of the query conditions against the function's docstring     *)
(***************************************************************************)
\* C20 as stated: for a user holding the System Manager role or the Sales
\* Manager role get_permission_query_conditions returns None, no filter.
C20_AsStated ==
    (/\ ret.op = "get_list"
     /\ ret.user \in Users
     /\ roles[ret.user] \cap {"System Manager", "Sales Manager"} # {})
        => ret.cond.sql = None

(***************************************************************************)
(* Properties of the task API's errors and of edits at the same time       *)
(***************************************************************************)
\* C17 as stated: create_task without a task_type raises a validation
\* error and creates nothing; edit_task, delete_task and update_status
\* (with a status) called with an id no task has raise the store's
\* not-found error and leave the tasks as they were.
C17_AsStated ==
    [][/\ (ret'.op = "create_task" /\ Falsy(ret'.task_type))
             => ret'.exc = "ValidationError" /\ tasks' = tasks
       /\ (/\ ret'.op \in {"edit_task", "delete_task", "update_status"}
           /\ ret'.task_id # 0
           /\ ret'.task_id \notin TaskNames
           /\ ret'.op = "update_status" => ~Falsy(ret'.status))
             => ret'.exc = "DoesNotExistError" /\ tasks' = tasks]_vars

\* Two calls that have ended and had loaded the same version of a task.
Interleaved(p, q) ==
    /\ p # q
    /\ edits[p].pc = "done" /\ edits[q].pc = "done"
    /\ edits[p].doc.name \in TaskNames
    /\ edits[p].doc.name = edits[q].doc.name
    /\ edits[p].doc.modified = edits[q].doc.modified

\* C18 as stated: both saves of two interleaved edit_task calls succeed.
C18_AsStated ==
    \A p, q \in Procs : Interleaved(p, q) => edits[p].ok /\ edits[q].ok

\* C18 amended: of two edit_task calls that loaded the same version of a
\* task, the one that saves first succeeds and the other is rejected with
\* TimestampMismatchError; the stored task is the first writer's document,
\* with the stored values for the fields only the rejected call set.
C18_FirstSaveWins ==
    \A p, q \in Procs :
        /\ Interleaved(p, q) => edits[p].ok \/ edits[q].ok
        /\ (Interleaved(p, q) /\ edits[p].ok)
            => /\ ~edits[q].ok
               /\ edits[q].exc = "TimestampMismatchError"
               /\ edits[p].exc = None
               /\ LET stored == tasks[TaskIndex(edits[p].doc.name)]
                  IN  /\ stored.status = edits[p].doc.status
                      /\ stored.priority = edits[p].doc.priority
                      /\ stored.modified # edits[p].doc.modified
                      /\ edits[p].value.status = stored.status
                      /\ edits[p].value.priority = stored.priority

\* C18 witness: one call set the status, the other the priority of the same
\* version; the first is stored, the second rejected and its priority lost.
C18_Witness ==
    \E p, q \in Procs :
        /\ Interleaved(p, q)
        /\ edits[p].ok /\ edits[p].status = "Done" /\ edits[p].priority = None
        /\ ~edits[q].ok /\ edits[q].priority = "High"
        /\ tasks[1].status = "Done" /\ tasks[1].priority = "Medium"

(***************************************************************************)
(* Properties of the buckets of the main page                              *)
(***************************************************************************)
BucketCall == ret.op = "main_page_buckets" /\ ret.ok

\* The names a bucket lists.
BucketNames(bucket) == {bucket[i].name : i \in 1..Len(bucket)}

\* The stored tasks that qualify for each bucket.
TodayTasks == {i \in 1..Len(tasks) : tasks[i].start_date = Today}
LateTasks ==
    {i \in 1..Len(tasks) :
        /\ tasks[i].start_date < Today
        /\ tasks[i].status \in {"Backlog", "Todo", "In Progress"}}
UpcomingTasks == {i \in 1..Len(tasks) : tasks[i].start_date > Today}

\* A bucket lists min_each of the qualifying tasks, or all of them when
\* they are fewer, each once.
BucketOf(bucket, qualifying) ==
    /\ BucketNames(bucket) \subseteq {tasks[i].name : i \in qualifying}
    /\ Cardinality(BucketNames(bucket)) = Len(bucket)
    /\ Len(bucket) <= ret.min_each
    /\ Len(bucket) = Min(ret.min_each, Cardinality(qualifying))

\* C25: in every main_page_buckets result the today, late and upcoming
\* buckets hold tasks that start today, before today and after today, so
\* no task is in two of them; each holds at most min_each tasks, and
\* exactly min_each when that many qualify; every task in late has status
\* Backlog, Todo or In Progress.  min_each is the one the result carries:
\* the one asked for, or 5 when none or 0 is asked for.
C25_BucketsDisjointAndCut ==
    BucketCall =>
        /\ ret.min_each = (IF ret.min_each_arg = 0 THEN 5 ELSE ret.min_each_arg)
        /\ BucketOf(ret.today, TodayTasks)
        /\ BucketOf(ret.late, LateTasks)
        /\ BucketOf(ret.upcoming, UpcomingTasks)
        /\ BucketNames(ret.today) \cap BucketNames(ret.late) = {}
        /\ BucketNames(ret.today) \cap BucketNames(ret.upcoming) = {}
        /\ BucketNames(ret.late) \cap BucketNames(ret.upcoming) = {}
        /\ \A i \in 1..Len(ret.today) : ret.today[i].start_date = Today
        /\ \A i \in 1..Len(ret.late) :
              /\ ret.late[i].start_date < Today
              /\ ret.late[i].status \in {"Backlog", "Todo", "In Progress"}
        /\ \A i \in 1..Len(ret.upcoming) : ret.upcoming[i].start_date > Today

\* C25 witness: one of two late tasks that are still active is listed, and
\* a late task that is done is left out.
C25_Witness ==
    /\ BucketCall
    /\ ret.min_each = 1
    /\ Cardinality(LateTasks) = 2
    /\ Len(ret.late) = 1
    /\ \E i \in 1..Len(tasks) : tasks[i].start_date < Today /\ tasks[i].status = "Done"

====
